---- MODULE Spec2Model ----
(***************************************************************************)
(* Credential lifecycle manager (GoogleAuthManager), client factory        *)
(* (GoogleClientFactory) and the key/value credential store they share.    *)
(*                                                                         *)
(* Every request is an async function of the single-threaded event loop:   *)
(* a step of the model is the code that runs between two suspension points *)
(* (an await on the store).  A store operation takes effect in the step    *)
(* that issues it or in the step named "...Land" that follows; requests    *)
(* interleave at those points only.                                        *)
(***************************************************************************)
EXTENDS Integers, Sequences, FiniteSets, TLC

VARIABLES
    store,      \* StateStorage: key -> value, keys <<"token", u>> and <<"email", e>>
    authCache,  \* GoogleAuthManager.clientCache: userId -> OAuth2Client (handle id)
    factCache,  \* GoogleClientFactory.clientCache: userId -> GoogleWorkspaceClient (client id)
    handles,    \* the live OAuth2Client objects: handle id -> the UserToken its listener closes over
    clients,    \* the live GoogleWorkspaceClient objects: client id -> handle id
    procs,      \* the requests in progress: one record per request slot
    writes,     \* storeToken calls of "tokens" listeners still in flight
    tick,       \* source of Date.now() and of the token values the provider issues
    lastAuth,   \* history: per user, the refresh token issued by the last completed
                \* authorization since the user was last removed, if any
    phase,      \* history: per user, the authorizations completed since the user was
                \* last without a credential (never authorized, or removed): "none",
                \* "once", or "again" for two or more
    overlapped, \* an operation has started while another one was in progress
    handlerCfg, \* GoogleWorkspaceHandler: which source of the dispatcher runs,
                \* whether it was constructed with an sdk to log to, whether
                \* the process constructs one handler per task or one for all,
                \* and this.capabilities
    taskCount,  \* GoogleWorkspaceHandler.taskCount of the handler of the last task
    task,       \* the handleTask call in progress or last answered
    clock,      \* Date.now(), in milliseconds
    dispatched, \* history: the tasks dispatched in the process
    mem,        \* InMemoryStateStorage.store: key -> StoredValue
    memOut,     \* what the last call on the InMemoryStateStorage returned
    chat,       \* the call of the task:chat handler in progress or last returned
    gate        \* the request the A2A auth middleware decides or has last decided

credVars == <<store, authCache, factCache, handles, clients, procs, writes, tick,
              lastAuth, phase, overlapped>>
taskVars == <<handlerCfg, taskCount, task, clock, dispatched>>
memVars == <<mem, memOut>>
vars == <<credVars, taskVars, memVars, chat, gate>>

\* ---------------------------------------------------------------- bounds
\* token issuances (authorizations and refreshes) in a run whose operations
\* run one after the other
MaxTick == 3
\* token issuances in a run in which two operations overlap
MaxRaceTick == 2

Users == {"u1", "u2"}
Emails == {"a@x.com", "b@x.com"}
\* the accounts userinfo can report: u1 is known under both addresses (it changes
\* its address), and b@x.com is reported for both users
Accounts == {<<"u1", "a@x.com">>, <<"u1", "b@x.com">>, <<"u2", "b@x.com">>}
Procs == {"p1", "p2"}
\* request slots are interchangeable: with every slot free, a request takes this one
FirstSlot == "p1"

\* src/src/google-auth.ts:4-9 (the four scope URLs, abbreviated)
GOOGLE_SCOPES == {"documents", "drive", "userinfo.email", "userinfo.profile"}

\* ---------------------------------------------------------------- UserToken and its JSON form
TokenFields == {"userId", "email", "accessToken", "refreshToken", "expiresAt",
                "scopes", "createdAt", "updatedAt"}

\* An optional value: <<>> is undefined / null, <<v>> is v.
Absent == <<>>
Some(v) == <<v>>
IsSome(o) == Len(o) > 0
The(o) == o[1]

\* JSON.stringify(token): a property whose value is undefined is left out.
Stringify(t) ==
    [k \in {f \in TokenFields : f # "expiresAt" \/ IsSome(t.expiresAt)} |->
        IF k = "expiresAt" THEN The(t.expiresAt) ELSE t[k]]

\* (mutation) a missing expiresAt reads as 0
ParseExpiryZero(s) ==
    [userId |-> s["userId"], email |-> s["email"],
     accessToken |-> s["accessToken"], refreshToken |-> s["refreshToken"],
     expiresAt |-> IF "expiresAt" \in DOMAIN s THEN Some(s["expiresAt"]) ELSE Some(0),
     scopes |-> s["scopes"], createdAt |-> s["createdAt"], updatedAt |-> s["updatedAt"]]

\* JSON.parse(data) read as a UserToken: a missing property reads undefined.
Parse(s) ==
    [userId |-> s["userId"], email |-> s["email"],
     accessToken |-> s["accessToken"], refreshToken |-> s["refreshToken"],
     expiresAt |-> IF "expiresAt" \in DOMAIN s THEN Some(s["expiresAt"]) ELSE Absent,
     scopes |-> s["scopes"], createdAt |-> s["createdAt"], updatedAt |-> s["updatedAt"]]

\* ---------------------------------------------------------------- StateStorage
TokenKey(u) == <<"token", u>>
EmailKey(e) == <<"email", e>>

\* get(key): the value, or null
Get(st, k) == IF k \in DOMAIN st THEN Some(st[k]) ELSE Absent
\* set(key, value)
Put(st, k, v) == [x \in DOMAIN st \cup {k} |-> IF x = k THEN v ELSE st[x]]
\* delete(key)
Del(st, k) == [x \in DOMAIN st \ {k} |-> st[x]]
\* exists(key)
Exists(st, k) == IsSome(Get(st, k))

\* (mutation) one cached client serves every user
CacheGetShared(c, u) ==
    IF DOMAIN c # {} THEN Some(c[CHOOSE x \in DOMAIN c : TRUE]) ELSE Absent

\* Map.get / Map.set / Map.delete of the two client caches
CacheGet(c, u) == IF u \in DOMAIN c THEN Some(c[u]) ELSE Absent
CacheSet(c, u, v) == [x \in DOMAIN c \cup {u} |-> IF x = u THEN v ELSE c[x]]
CacheDelete(c, u) == [x \in DOMAIN c \ {u} |-> c[x]]

\* ---------------------------------------------------------------- objects
\* Objects are named by small numbers.  An object nothing refers to any more is
\* dropped (garbage collected), so an id always names a live object and a new
\* object differs from every live one.
NewId(f) == CHOOSE i \in 1..(Cardinality(DOMAIN f) + 1) :
                /\ i \notin DOMAIN f
                /\ \A j \in 1..(i - 1) : j \in DOMAIN f
Restrict(f, S) == [x \in DOMAIN f \cap S |-> f[x]]
Range(f) == {f[x] : x \in DOMAIN f}
\* the service clients referred to by the factory cache or held by a request
LiveClients(fc, pr) ==
    Range(fc) \cup {pr[p].res[1] : p \in {q \in DOMAIN pr : pr[q].res # <<>>}}
\* the handles referred to by the manager cache or wrapped by a live client
LiveHandles(ac, cl) == Range(ac) \cup Range(cl)

\* ---------------------------------------------------------------- request slots
Idle == [op |-> "idle", pc |-> "idle", u |-> "", e |-> "", val |-> Absent,
         res |-> Absent, err |-> ""]

Active(p) == procs[p].pc # "idle"
Quiet == (\A p \in Procs : ~Active(p)) /\ writes = {}
\* an operation starting in slot p would run while another one is in progress
Overlaps(p) == writes # {} \/ \E q \in Procs \ {p} : Active(q)
\* Something may start now: a run has at most one start that coincides with an
\* operation in progress, and none after MaxRaceTick issuances.
Overlap(p) ==
    /\ Overlaps(p) => (~overlapped /\ tick <= MaxRaceTick)
    /\ overlapped' = (overlapped \/ Overlaps(p))
\* an operation may start in slot p
Begin(p) ==
    /\ ~Active(p)
    /\ (\A q \in Procs : ~Active(q)) => p = FirstSlot
    /\ Overlap(p)
\* the provider may issue one more token in this step
MayIssue == tick < (IF overlapped' THEN MaxRaceTick ELSE MaxTick)
\* no two operations have run concurrently so far
Sequential == ~overlapped

\* no call on the InMemoryStateStorage has returned since time last passed
NoCall == [op |-> "none"]

\* ---------------------------------------------------------------- the capability registry
\* A Map is the sequence of its entries in insertion order.
\* Map.set(key, value): a new key goes last, a known key keeps its place and
\* takes the new value
MapSet(entries, k, v) ==
    IF \E i \in 1..Len(entries) : entries[i].key = k
    THEN [i \in 1..Len(entries) |->
             IF entries[i].key = k THEN [key |-> k, value |-> v] ELSE entries[i]]
    ELSE Append(entries, [key |-> k, value |-> v])

\* Map.get(key): the value set under the key, undefined for an unknown key
MapGet(entries, k) ==
    IF \E i \in 1..Len(entries) : entries[i].key = k
    THEN Some(entries[CHOOSE i \in 1..Len(entries) : entries[i].key = k].value)
    ELSE Absent

\* Array.from(map.keys()): the keys in insertion order
MapKeys(entries) == [i \in 1..Len(entries) |-> entries[i].key]

\* (mutation) the conversational capability is set under the key of the
\* listing capability
RegisterCapabilitiesOverwriting ==
    MapSet(MapSet(MapSet(MapSet(MapSet(MapSet(MapSet(<< >>,
        <<"google", "docs", "create">>, [type |-> <<"google", "docs", "create">>]),
        <<"google", "docs", "read">>, [type |-> <<"google", "docs", "read">>]),
        <<"google", "docs", "update">>, [type |-> <<"google", "docs", "update">>]),
        <<"google", "docs", "append">>, [type |-> <<"google", "docs", "append">>]),
        <<"google", "docs", "list">>, [type |-> <<"google", "docs", "list">>]),
        <<"google", "drive", "search">>, [type |-> <<"google", "drive", "search">>]),
        <<"google", "docs", "list">>, [type |-> <<"task", "chat">>])

\* registerCapabilities(): this.capabilities after the seven set calls of the
\* constructor, each entry with the type it is declared with
RegisterCapabilities ==
    MapSet(MapSet(MapSet(MapSet(MapSet(MapSet(MapSet(<< >>,
        <<"google", "docs", "create">>, [type |-> <<"google", "docs", "create">>]),
        <<"google", "docs", "read">>, [type |-> <<"google", "docs", "read">>]),
        <<"google", "docs", "update">>, [type |-> <<"google", "docs", "update">>]),
        <<"google", "docs", "append">>, [type |-> <<"google", "docs", "append">>]),
        <<"google", "docs", "list">>, [type |-> <<"google", "docs", "list">>]),
        <<"google", "drive", "search">>, [type |-> <<"google", "drive", "search">>]),
        <<"task", "chat">>, [type |-> <<"task", "chat">>])

\* the task:chat handler is not running; agent: the handler was constructed
\* with a language-model agent
NoChat(agent) == [pc |-> "idle", agent |-> agent]

\* no handleTask call has been made
NoTask == [pc |-> "none"]

\* the auth middleware has not been built
NoGate == [pc |-> "none"]

Init ==
    /\ handlerCfg = [source |-> "handler.ts", sdk |-> FALSE, perTask |-> FALSE,
                     capabilities |-> RegisterCapabilities]
    /\ taskCount = 0
    /\ dispatched = 0
    /\ mem = << >> /\ memOut = NoCall
    /\ chat = NoChat(FALSE)
    /\ gate = NoGate
    /\ task = NoTask
    /\ clock = 0
    /\ store = << >>
    /\ authCache = << >>
    /\ factCache = << >>
    /\ handles = << >>
    /\ clients = << >>
    /\ procs = [p \in Procs |-> Idle]
    /\ writes = {}
    /\ tick = 0
    /\ lastAuth = [u \in Users |-> Absent]
    /\ phase = [u \in Users |-> "none"]
    /\ overlapped = FALSE

\* ---------------------------------------------------------------- GoogleAuthManager.handleCallback
\* A token value of the provider: its t-th issuance, made out to account u.
Tok(t, u) == <<t, u>>
Owner(tok) == tok[2]

\* What oauth2Client.getToken(code) answers for a code of account u: the
\* provider may leave out the refresh token and the expiry date.
ExchangeResponse(t, u, hasRefresh, hasExpiry) ==
    [access_token |-> Tok(t, u),
     refresh_token |-> IF hasRefresh THEN Some(Tok(t, u)) ELSE Absent,
     expiry_date |-> IF hasExpiry THEN Some(t) ELSE Absent]

\* if (!tokens.refresh_token) throw new Error("No refresh token received. ...")
MissingRefreshToken(tokens) == ~IsSome(tokens.refresh_token)

\* the UserToken built from the exchange response and userinfo, at time now
NewUserToken(tokens, u, e, now) ==
    [userId |-> u, email |-> e,
     accessToken |-> tokens.access_token,
     refreshToken |-> The(tokens.refresh_token),
     expiresAt |-> tokens.expiry_date,
     scopes |-> GOOGLE_SCOPES, createdAt |-> now, updatedAt |-> now]

\* storeToken, first await: storage.set(`token:${token.userId}`, JSON.stringify(token))
StoreTokenPrimary(st, t) == Put(st, TokenKey(t.userId), Stringify(t))
\* storeToken, second await: storage.set(`email:${token.email}`, token.userId)
StoreTokenIndex(st, e, u) == Put(st, EmailKey(e), u)

\* (mutation) the index entry is written before the refresh token is checked
CallbackStoreUnchecked(st, tokens, u, e, now) == StoreTokenIndex(st, e, u)

\* The store after handleCallback has received the exchange response `tokens`
\* for the account (u, e) and run up to its next suspension point.
CallbackStore(st, tokens, u, e, now) ==
    IF MissingRefreshToken(tokens) THEN st
    ELSE StoreTokenPrimary(st, NewUserToken(tokens, u, e, now))

\* GoogleClientFactory.handleOAuthCallback(code), from its call to the first
\* store write of storeToken; the code was issued for account (u, e).
HandleOAuthCallback(p, u, e, hasRefresh, hasExpiry) ==
    /\ UNCHANGED <<taskVars, memVars, chat, gate>>
    /\ Begin(p)
    /\ MayIssue
    /\ LET now == tick + 1
           tokens == ExchangeResponse(now, u, hasRefresh, hasExpiry)
       IN /\ store' = CallbackStore(store, tokens, u, e, now)
          /\ IF MissingRefreshToken(tokens)
             THEN /\ procs' = [procs EXCEPT ![p] =
                        [Idle EXCEPT !.op = "auth", !.pc = "done", !.u = u, !.e = e,
                                     !.err = "No refresh token received"]]
                  /\ tick' = tick
             ELSE /\ procs' = [procs EXCEPT ![p] =
                        [Idle EXCEPT !.op = "auth", !.pc = "auth_index", !.u = u, !.e = e,
                                     !.val = Some(NewUserToken(tokens, u, e, now))]]
                  /\ tick' = now
    /\ UNCHANGED <<authCache, factCache, handles, clients, writes, lastAuth, phase>>

\* storeToken's second write lands
AuthIndexLand(p) ==
    /\ UNCHANGED <<taskVars, memVars, chat, gate>>
    /\ procs[p].pc = "auth_index"
    /\ store' = StoreTokenIndex(store, procs[p].e, procs[p].u)
    /\ procs' = [procs EXCEPT ![p].pc = "auth_evict"]
    /\ UNCHANGED <<authCache, factCache, handles, clients, writes, tick, lastAuth,
                   phase, overlapped>>

\* Drop what the step left unreferenced: cl and hs are the clients and handles
\* the step leaves, the caches and the requests are already those of the next state.
Collect(cl, hs) ==
    /\ clients' = Restrict(cl, LiveClients(factCache', procs'))
    /\ handles' = Restrict(hs, LiveHandles(authCache', clients'))

\* the caches after handleCallback has returned token for user u to the factory:
\* this.clientCache.delete(token.userId) of the factory, nothing in the manager
EvictOnCallback(ac, fc, u) == <<ac, CacheDelete(fc, u)>>

AuthEvict(p) ==
    /\ UNCHANGED <<taskVars, memVars, chat, gate>>
    /\ procs[p].pc = "auth_evict"
    /\ LET c == EvictOnCallback(authCache, factCache, procs[p].u)
       IN authCache' = c[1] /\ factCache' = c[2]
    /\ procs' = [procs EXCEPT ![p] = Idle]
    /\ lastAuth' = [lastAuth EXCEPT ![procs[p].u] = Some(The(procs[p].val).refreshToken)]
    /\ phase' = [phase EXCEPT ![procs[p].u] =
                    IF @ = "none" THEN "once" ELSE "again"]
    /\ UNCHANGED <<store, writes, tick, overlapped>>
    /\ Collect(clients, handles)

\* ---------------------------------------------------------------- removeUser
\* GoogleClientFactory.removeUser(u) -> GoogleAuthManager.removeUser(u):
\* getToken(userId) is read
RemoveUser(p, u) ==
    /\ UNCHANGED <<taskVars, memVars, chat, gate>>
    /\ Begin(p)
    /\ procs' = [procs EXCEPT ![p] =
           [Idle EXCEPT !.op = "remove", !.u = u, !.val = Get(store, TokenKey(u)),
                        !.pc = IF Exists(store, TokenKey(u)) THEN "rm_index" ELSE "rm_primary"]]
    /\ UNCHANGED <<store, authCache, factCache, handles, clients, writes, tick,
                   lastAuth, phase>>

\* if (token) storage.delete(`email:${token.email}`)
RemoveIndexLand(p) ==
    /\ UNCHANGED <<taskVars, memVars, chat, gate>>
    /\ procs[p].pc = "rm_index"
    /\ store' = Del(store, EmailKey(Parse(The(procs[p].val)).email))
    /\ procs' = [procs EXCEPT ![p].pc = "rm_primary"]
    /\ UNCHANGED <<authCache, factCache, handles, clients, writes, tick, lastAuth,
                   phase, overlapped>>

\* storage.delete(`token:${userId}`)
RemovePrimaryLand(p) ==
    /\ UNCHANGED <<taskVars, memVars, chat, gate>>
    /\ procs[p].pc = "rm_primary"
    /\ store' = Del(store, TokenKey(procs[p].u))
    /\ procs' = [procs EXCEPT ![p].pc = "rm_evict", ![p].val = Absent]
    /\ UNCHANGED <<authCache, factCache, handles, clients, writes, tick, lastAuth,
                   phase, overlapped>>

\* (mutation) removeUser evicts the factory's client and keeps the manager's handle
EvictOnRemoveFactoryOnly(ac, fc, u) == <<ac, CacheDelete(fc, u)>>

\* (mutation) removeUser empties both caches
EvictOnRemoveAll(ac, fc, u) == <<Restrict(ac, {}), Restrict(fc, {})>>

\* the caches after removeUser(u): this.clientCache.delete(userId) in the
\* manager, then in the factory
EvictOnRemove(ac, fc, u) == <<CacheDelete(ac, u), CacheDelete(fc, u)>>

RemoveEvict(p) ==
    /\ UNCHANGED <<taskVars, memVars, chat, gate>>
    /\ procs[p].pc = "rm_evict"
    /\ LET c == EvictOnRemove(authCache, factCache, procs[p].u)
       IN authCache' = c[1] /\ factCache' = c[2]
    /\ procs' = [procs EXCEPT ![p] = Idle]
    /\ lastAuth' = [lastAuth EXCEPT ![procs[p].u] = Absent]
    /\ phase' = [phase EXCEPT ![procs[p].u] = "none"]
    /\ UNCHANGED <<store, writes, tick, overlapped>>
    /\ Collect(clients, handles)

\* ---------------------------------------------------------------- listUsers
\* (mutation) the scan answers with one key at most
KeysMatchingFirst(st, prefix) ==
    LET ks == {k \in DOMAIN st : \E i \in 1..(Len(k) - 1) : k[i] = prefix}
    IN IF ks = {} THEN {} ELSE {CHOOSE k \in ks : TRUE}

\* A key is its segments between colons: token:u1 is <<"token", "u1">>.
\* keys(`${prefix}:*`): new RegExp(pattern.replace(/\*/g, ".*")) is not anchored,
\* so it matches every key in which prefix is followed by a colon, anywhere.
KeysMatching(st, prefix) ==
    {k \in DOMAIN st : \E i \in 1..(Len(k) - 1) : k[i] = prefix}

\* Array.from(...): the keys in the order the scan answers them
RECURSIVE KeySeq(_)
KeySeq(S) ==
    IF S = {} THEN << >>
    ELSE LET k == CHOOSE x \in S : TRUE IN <<k>> \o KeySeq(S \ {k})

\* if (data) tokens.push(JSON.parse(data))
PushToken(tokens, data) ==
    IF IsSome(data) THEN Append(tokens, Parse(The(data))) ELSE tokens

\* GoogleClientFactory.listUsers() -> GoogleAuthManager.listUsers():
\* storage.keys("token:*") is read
ListUsers(p) ==
    /\ UNCHANGED <<taskVars, memVars, chat, gate>>
    /\ Begin(p)
    /\ procs' = [procs EXCEPT ![p] =
           [Idle EXCEPT !.op = "list", !.pc = "ls_read",
                        !.val = Some([keys |-> KeySeq(KeysMatching(store, "token")),
                                      tokens |-> << >>])]]
    /\ UNCHANGED <<store, authCache, factCache, handles, clients, writes, tick,
                   lastAuth, phase>>

\* for (const key of keys): storage.get(key) answers; after the last key the
\* tokens are returned
ListRead(p) ==
    /\ UNCHANGED <<taskVars, memVars, chat, gate>>
    /\ procs[p].pc = "ls_read"
    /\ LET l == The(procs[p].val)
       IN IF l.keys = << >>
          THEN procs' = [procs EXCEPT ![p].pc = "done"]
          ELSE procs' = [procs EXCEPT
                   ![p].val = Some([keys |-> Tail(l.keys),
                                    tokens |-> PushToken(l.tokens, Get(store, Head(l.keys)))]),
                   ![p].pc = IF Tail(l.keys) = << >> THEN "done" ELSE "ls_read"]
    /\ UNCHANGED <<store, authCache, factCache, handles, clients, writes, tick,
                   lastAuth, phase, overlapped>>

\* ---------------------------------------------------------------- getClientForUser / getClientForEmail
\* new GoogleWorkspaceClient(auth): a fresh service client over handle h
NewClient(cl, h) == (NewId(cl) :> h) @@ cl

\* GoogleAuthManager.getClientForUser after getToken answered data (not null):
\* a fresh OAuth2Client seeded with the stored tokens, whose "tokens" listener
\* closes over the parsed UserToken
NewHandle(hs, data) == (NewId(hs) :> Parse(data)) @@ hs

\* (mutation) the handle is cached before the null check
ManagerCacheAlways(ac, u, data, h) == CacheSet(ac, u, h)

\* The manager cache after getToken(u) answered data and handle h was built:
\* if (!token) return null comes before this.clientCache.set(userId, oauth2Client)
ManagerCacheAfter(ac, u, data, h) ==
    IF IsSome(data) THEN CacheSet(ac, u, h) ELSE ac

\* (mutation) a client built while another one is cached is not cached
FactoryCacheKeepFirst(fc, op, u, c) ==
    IF op = "getUser" /\ u \notin DOMAIN fc THEN CacheSet(fc, u, c) ELSE fc

\* The factory cache after a lookup for user u has built client c:
\* getClientForUser caches it under the user id, getClientForEmail does not.
FactoryCacheAfter(fc, op, u, c) ==
    IF op = "getUser" THEN CacheSet(fc, u, c) ELSE fc

\* GoogleClientFactory.getClientForUser(u) up to its first suspension point:
\* the factory cache, then the manager cache, then getToken(u) is issued.
GetClientForUser(p, u) ==
    /\ UNCHANGED <<taskVars, memVars, chat, gate>>
    /\ Begin(p)
    /\ UNCHANGED <<store, authCache, writes, tick, lastAuth, phase>>
    /\ IF IsSome(CacheGet(factCache, u))
       THEN /\ procs' = [procs EXCEPT ![p] =
                  [Idle EXCEPT !.op = "getUser", !.pc = "done", !.u = u,
                               !.res = CacheGet(factCache, u)]]
            /\ UNCHANGED <<clients, factCache, handles>>
       ELSE IF IsSome(CacheGet(authCache, u))
       THEN /\ factCache' = FactoryCacheAfter(factCache, "getUser", u, NewId(clients))
            /\ procs' = [procs EXCEPT ![p] =
                  [Idle EXCEPT !.op = "getUser", !.pc = "done", !.u = u,
                               !.res = Some(NewId(clients))]]
            /\ Collect(NewClient(clients, The(CacheGet(authCache, u))), handles)
       ELSE /\ procs' = [procs EXCEPT ![p] =
                  [Idle EXCEPT !.op = "getUser", !.pc = "gu_read", !.u = u]]
            /\ UNCHANGED <<clients, factCache, handles>>

\* GoogleClientFactory.getClientForEmail(e): getUserIdByEmail(e) is read
GetClientForEmail(p, e) ==
    /\ UNCHANGED <<taskVars, memVars, chat, gate>>
    /\ Begin(p)
    /\ procs' = [procs EXCEPT ![p] =
           [Idle EXCEPT !.op = "getEmail", !.pc = "ge_resolved", !.e = e,
                        !.val = Get(store, EmailKey(e))]]
    /\ UNCHANGED <<store, authCache, factCache, handles, clients, writes, tick,
                   lastAuth, phase>>

\* if (!userId) return null; return this.getClientForUser(userId)
ResolveEmail(p) ==
    /\ UNCHANGED <<taskVars, memVars, chat, gate>>
    /\ procs[p].pc = "ge_resolved"
    /\ UNCHANGED <<store, authCache, factCache, writes, tick, lastAuth, phase,
                   overlapped>>
    /\ IF ~IsSome(procs[p].val)
       THEN /\ procs' = [procs EXCEPT ![p].pc = "done"]
            /\ UNCHANGED <<clients, handles>>
       ELSE LET u == The(procs[p].val) IN
            IF IsSome(CacheGet(authCache, u))
            THEN /\ procs' = [procs EXCEPT ![p].pc = "done", ![p].u = u,
                                           ![p].val = Absent,
                                           ![p].res = Some(NewId(clients))]
                 /\ Collect(NewClient(clients, The(CacheGet(authCache, u))), handles)
            ELSE /\ procs' = [procs EXCEPT ![p].pc = "gu_read", ![p].u = u,
                                           ![p].val = Absent]
                 /\ UNCHANGED <<clients, handles>>

\* getToken(userId): storage.get(`token:${userId}`) answers
ReadToken(p) ==
    /\ UNCHANGED <<taskVars, memVars, chat, gate>>
    /\ procs[p].pc = "gu_read"
    /\ procs' = [procs EXCEPT ![p].pc = "gu_build",
                              ![p].val = Get(store, TokenKey(procs[p].u))]
    /\ UNCHANGED <<store, authCache, factCache, handles, clients, writes, tick,
                   lastAuth, phase, overlapped>>

\* if (!token) return null; else build the handle, cache it, wrap it
BuildClient(p) ==
    /\ UNCHANGED <<taskVars, memVars, chat, gate>>
    /\ procs[p].pc = "gu_build"
    /\ UNCHANGED <<store, writes, tick, lastAuth, phase, overlapped>>
    /\ authCache' = ManagerCacheAfter(authCache, procs[p].u, procs[p].val, NewId(handles))
    /\ IF ~IsSome(procs[p].val)
       THEN /\ procs' = [procs EXCEPT ![p].pc = "done"]
            /\ UNCHANGED <<factCache, handles, clients>>
       ELSE /\ factCache' = FactoryCacheAfter(factCache, procs[p].op, procs[p].u,
                                              NewId(clients))
            /\ procs' = [procs EXCEPT ![p].pc = "done", ![p].val = Absent,
                                      ![p].res = Some(NewId(clients))]
            /\ Collect(NewClient(clients, NewId(handles)),
                       NewHandle(handles, The(procs[p].val)))

\* ---------------------------------------------------------------- the "tokens" listener
\* What the OAuth2Client reports after a silent refresh at time t: the provider
\* answers the handle's refresh token with an access token for the same account.
RefreshedTokens(t, refreshToken, hasAccess, hasExpiry) ==
    [access_token |-> IF hasAccess THEN Some(Tok(t, Owner(refreshToken))) ELSE Absent,
     expiry_date |-> IF hasExpiry THEN Some(t) ELSE Absent]

\* the listener's synchronous part: the UserToken it closes over, afterwards
TokensListener(token, newTokens, now) ==
    IF IsSome(newTokens.access_token)
    THEN [token EXCEPT !.accessToken = The(newTokens.access_token),
                       !.updatedAt = now,
                       !.expiresAt = IF IsSome(newTokens.expiry_date)
                                     THEN newTokens.expiry_date ELSE @]
    ELSE token

\* A request that holds a client calls the document service; the handle
\* refreshes its access token and fires "tokens"; the listener updates its
\* UserToken and calls storeToken, which nobody awaits.
Refresh(p, hasAccess, hasExpiry) ==
    /\ UNCHANGED <<taskVars, memVars, chat, gate>>
    /\ procs[p].pc = "done"
    /\ procs[p].op \in {"getUser", "getEmail"}
    /\ IsSome(procs[p].res)
    /\ LET h == clients[The(procs[p].res)]
           now == tick + 1
           newTokens == RefreshedTokens(now, handles[h].refreshToken, hasAccess, hasExpiry)
           token == TokensListener(handles[h], newTokens, now)
       IN IF IsSome(newTokens.access_token)
          THEN /\ Overlap(p)
               /\ MayIssue
               /\ tick' = now
               /\ handles' = [handles EXCEPT ![h] = token]
               /\ writes' = writes \cup {[val |-> Stringify(token), stage |-> "primary"]}
          ELSE UNCHANGED <<tick, handles, writes, overlapped>>
    /\ UNCHANGED <<store, authCache, factCache, clients, procs, lastAuth, phase>>

\* the listener's storeToken: its first write lands
RefreshPrimaryLand(w) ==
    /\ UNCHANGED <<taskVars, memVars, chat, gate>>
    /\ w.stage = "primary"
    /\ store' = Put(store, TokenKey(w.val["userId"]), w.val)
    /\ writes' = (writes \ {w}) \cup {[w EXCEPT !.stage = "index"]}
    /\ UNCHANGED <<authCache, factCache, handles, clients, procs, tick, lastAuth,
                   phase, overlapped>>

\* the listener's storeToken: its second write lands
RefreshIndexLand(w) ==
    /\ UNCHANGED <<taskVars, memVars, chat, gate>>
    /\ w.stage = "index"
    /\ store' = StoreTokenIndex(store, w.val["email"], w.val["userId"])
    /\ writes' = writes \ {w}
    /\ UNCHANGED <<authCache, factCache, handles, clients, procs, tick, lastAuth,
                   phase, overlapped>>

\* the request's handler returns
Return(p) ==
    /\ UNCHANGED <<taskVars, memVars, chat, gate>>
    /\ procs[p].pc = "done"
    /\ procs' = [procs EXCEPT ![p] = Idle]
    /\ UNCHANGED <<store, authCache, factCache, writes, tick, lastAuth, phase,
                   overlapped>>
    /\ Collect(clients, handles)

Next ==
    \/ \E p \in Procs, a \in Accounts, r \in BOOLEAN :
           \* the token endpoint always reports expires_in, so the exchange
           \* response carries an expiry date; it may lack the refresh token
           HandleOAuthCallback(p, a[1], a[2], r, TRUE)
    \/ \E p \in Procs : AuthIndexLand(p)
    \/ \E p \in Procs : AuthEvict(p)
    \/ \E p \in Procs, u \in Users : RemoveUser(p, u)
    \/ \E p \in Procs : RemoveIndexLand(p)
    \/ \E p \in Procs : RemovePrimaryLand(p)
    \/ \E p \in Procs : RemoveEvict(p)
    \/ \E p \in Procs : ListUsers(p)
    \/ \E p \in Procs : ListRead(p)
    \/ \E p \in Procs, u \in Users : GetClientForUser(p, u)
    \/ \E p \in Procs, e \in Emails : GetClientForEmail(p, e)
    \/ \E p \in Procs : ResolveEmail(p)
    \/ \E p \in Procs : ReadToken(p)
    \/ \E p \in Procs : BuildClient(p)
    \/ \E p \in Procs, a \in BOOLEAN, x \in BOOLEAN : Refresh(p, a, x)
    \/ \E w \in writes : RefreshPrimaryLand(w)
    \/ \E w \in writes : RefreshIndexLand(w)
    \/ \E p \in Procs : Return(p)

Spec == Init /\ [][Next]_vars

\* ---------------------------------------------------------------- storing and reading credentials
\* Authorizations whose exchange response may or may not carry an expiry date
\* (google-auth-library sets expiry_date only when the token endpoint reports
\* expires_in), and the reads of the stored credential by user id.
TokenNext ==
    \/ \E p \in Procs, a \in Accounts, r \in BOOLEAN, x \in BOOLEAN :
           HandleOAuthCallback(p, a[1], a[2], r, x)
    \/ \E p \in Procs : AuthIndexLand(p)
    \/ \E p \in Procs : AuthEvict(p)
    \/ \E p \in Procs : ListUsers(p)
    \/ \E p \in Procs : ListRead(p)
    \/ \E p \in Procs, u \in Users : GetClientForUser(p, u)
    \/ \E p \in Procs : ReadToken(p)
    \/ \E p \in Procs : BuildClient(p)
    \/ \E p \in Procs : Return(p)

TokenSpec == Init /\ [][TokenNext]_vars

\* ================================================================ the task dispatcher
\* GoogleWorkspaceHandler.handleTask, in its two sources: src/a2a/handler.ts
\* (logs through the optional sdk) and unnamed/part_001 (logs to the console).
\* A task type is its segments between colons: google:docs:create is
\* <<"google", "docs", "create">>; the empty sequence is the absent or empty type.

\* handleTask calls in a run
MaxTasks == 2
\* milliseconds the clock is advanced one at a time while a handler runs
MaxWait == 1
\* const timeoutMs = request.timeout_ms || 30000
DefaultTimeoutMs == 30000

ChatType == <<"task", "chat">>

\* getCapabilities(): Array.from(this.capabilities.keys())
GetCapabilities == MapKeys(handlerCfg.capabilities)

\* (mutation) every type resolves to the conversational capability
CapabilityChatOnly(t) == Some([type |-> ChatType])

\* this.capabilities.get(taskType): the capability registered under the key
Capability(t) == MapGet(handlerCfg.capabilities, t)

\* (mutation) any type with a namespace counts as prefixed
StartsWithAny(t, prefix) == Len(t) >= 2

\* taskType.startsWith(`${prefix}:`)
StartsWith(t, prefix) == Len(t) >= 2 /\ t[1] = prefix

\* the requests of the model
RequestTypes ==
    {RegisterCapabilities[i].key : i \in 1..Len(RegisterCapabilities)}
        \cup {<< >>, <<"google", "sheets", "read">>, <<"task", "summarize">>,
              <<"slack", "post">>, <<"google">>}
RequestInputs ==
    {Absent, Some(("message" :> Some("list my docs"))
                      @@ ("description" :> Some("from the input")))}
RequestDescriptions == {Absent, Some("find the report")}
RequestTimeouts == {Absent, Some(0), Some(0 - 1), Some(1)}
RequestTaskIds == {"", "T1"}

\* request.task_id || `task_${Date.now()}`
TaskIdOf(req, now) == IF req.task_id = "" THEN <<"task", now>> ELSE <<req.task_id>>
\* (mutation) the type is taken as sent, with no default
TaskTypeKept(req) == req.type
\* request.type || "task:chat"
TaskTypeOf(req) == IF req.type = << >> THEN ChatType ELSE req.type
\* request.input || { message: request.description }
InputOf(req) ==
    IF IsSome(req.input) THEN The(req.input) ELSE ("message" :> req.description)

\* request.timeout_ms || 30000: undefined and 0 are falsy, a negative number is not
TimeoutOf(req) ==
    IF ~IsSome(req.timeout_ms) \/ The(req.timeout_ms) = 0
    THEN DefaultTimeoutMs ELSE The(req.timeout_ms)

\* (mutation) { description: request.description, ...input }
MergeDescriptionKeep(input, description) ==
    [k \in DOMAIN input \cup {"description"} |->
        IF k \in DOMAIN input THEN input[k] ELSE description]

\* { ...input, description: request.description }
MergeDescription(input, description) ==
    [k \in DOMAIN input \cup {"description"} |->
        IF k = "description" THEN description ELSE input[k]]

\* setTimeout(callback, ms): a delay under 1 ms is run as 1 ms
TimerDelay(ms) == IF ms < 1 THEN 1 ELSE ms

\* what the handler of capability cap returns for input: the tools and the
\* agent are collaborators, their result is named by the call that produced it
HandlerResult(cap, input) == [by |-> cap, given |-> input]

\* A failure description: its words, and the duration it names if any.
\* new Error(`Task timeout after ${timeoutMs}ms`)
TimeoutError(ms) ==
    [isError |-> TRUE, message |-> [text |-> <<"Task", "timeout", "after">>, ms |-> Some(ms)]]
\* what a handler may reject with: an Error, or a value that is not an Error
\* (here the number 503)
HandlerErrors ==
    {[isError |-> TRUE, message |-> [text |-> <<"quota", "exceeded">>, ms |-> Absent]],
     [isError |-> TRUE, message |-> [text |-> <<"upstream", "timeout">>, ms |-> Absent]],
     [isError |-> FALSE, value |-> 503]}
\* error instanceof Error ? error.message : String(error)
ErrorMessage(error) ==
    IF error.isError THEN error.message
    ELSE [text |-> <<ToString(error.value)>>, ms |-> Absent]
\* (mutation) every failure is classified as a timeout
IsTimeoutAlways(message) == TRUE
\* errorMessage.includes("timeout")
IsTimeout(message) == \E i \in 1..Len(message.text) : message.text[i] = "timeout"

\* this.sdk?.log(...) of handler.ts, console.log / console.error of part_001
Log(logs, cfg, event) ==
    IF cfg.source = "part_001" \/ cfg.sdk THEN Append(logs, event) ELSE logs

\* the response for a type with no capability and no fallback
UnknownTypeResponse(cfg, taskId, taskType, elapsed) ==
    [task_id |-> taskId,
     status |-> IF cfg.source = "handler.ts" THEN "failed" ELSE "rejected",
     output |-> Absent,
     error |-> Some([code |-> "unknown_task_type",
                     message |-> [unknown |-> taskType, available |-> GetCapabilities]]),
     execution_time_ms |-> elapsed]

CompletedResponse(taskId, result, elapsed) ==
    [task_id |-> taskId, status |-> "completed", output |-> Some(result),
     error |-> Absent, execution_time_ms |-> elapsed]

\* the response of the catch block
FailedResponse(cfg, taskId, error, elapsed) ==
    LET isTimeout == IsTimeout(ErrorMessage(error))
    IN [task_id |-> taskId,
        status |-> IF cfg.source = "part_001" /\ isTimeout THEN "timeout" ELSE "failed",
        output |-> Absent,
        error |-> Some([code |-> IF isTimeout THEN "timeout" ELSE "execution_error",
                        message |-> ErrorMessage(error)]),
        execution_time_ms |-> elapsed]

\* ---------------------------------------------------------------- handleTask
\* Promise.race: the side that settles first settles the race
RaceSettle(settledBy, side) == IF settledBy = "none" THEN side ELSE settledBy

\* the race of executeWithTimeout is still open
Racing == task.pc = "executing"

\* the counter of the handler that runs the next task: a handler constructed
\* for the task starts at 0 (private taskCount = 0), a shared one keeps its count
NewHandlerCount(cfg, count) == IF cfg.perTask THEN 0 ELSE count

\* ---------------------------------------------------------------- handleSSETask
\* the inputs of the task worker: type and capability are absent, empty or a
\* task type; ctx.taskId is the worker's id of the task
SSETaskIds == {"T1"}
SSEInputs ==
    {("message" :> Some("list my docs"))} \cup
    {("type" :> t) @@ ("message" :> Some("list my docs")) :
         t \in {<< >>, <<"google", "docs", "read">>, <<"slack", "post">>}} \cup
    {("capability" :> c) @@ ("message" :> Some("list my docs")) :
         c \in {<<"google", "drive", "search">>, <<"google", "sheets", "read">>}} \cup
    {("type" :> t) @@ ("capability" :> c) @@ ("message" :> Some("list my docs")) :
         t \in {<< >>, <<"google", "docs", "read">>, <<"slack", "post">>},
         c \in {<<"google", "drive", "search">>, <<"google", "sheets", "read">>}}

\* input[k] is a non-empty string
Truthy(input, k) == k \in DOMAIN input /\ input[k] # << >>

\* input.type || input.capability || "task:chat"
SSETypeOf(input) ==
    IF Truthy(input, "type") THEN input["type"]
    ELSE IF Truthy(input, "capability") THEN input["capability"]
    ELSE ChatType

\* the request handleSSETask hands to handleTask: no description, no timeout_ms
SSERequest(taskId, input) ==
    [task_id |-> taskId, type |-> SSETypeOf(input), description |-> Absent,
     input |-> Some(input), timeout_ms |-> Absent]

\* the message is the empty string
EmptyMessage(message) ==
    "text" \in DOMAIN message /\ message.text = << >> /\ ~IsSome(message.ms)

\* (mutation) the output is returned whatever the status
SSEOutcomeUnchecked(response) == [returned |-> response.output]

\* handleSSETask after handleTask has returned response:
\* if (result.status === "failed") throw new Error(result.error?.message ||
\* "Task failed"); return result.output
SSEOutcome(response) ==
    IF response.status = "failed"
    THEN [thrown |-> IF ~IsSome(response.error) \/ EmptyMessage(The(response.error).message)
                     THEN Some("Task failed")
                     ELSE Some(The(response.error).message)]
    ELSE [returned |-> response.output]

\* what the caller of the dispatcher gets: the response for a caller of
\* handleTask, what handleSSETask makes of it for the task worker
CallerGets(via, response) ==
    IF via = "handleSSETask" THEN Some(SSEOutcome(response)) ELSE Absent

\* handleTask(request) from its call to its first suspension point: the await
\* of executeWithTimeout, or the return for a type that resolves to nothing;
\* via names the entry point, handleTask itself or handleSSETask
Dispatch(req, via) ==
    /\ task.pc = "none"
    /\ dispatched < MaxTasks
    /\ dispatched' = dispatched + 1
    /\ taskCount' = NewHandlerCount(handlerCfg, taskCount) + 1
    /\ LET taskId == TaskIdOf(req, clock)
           taskType == TaskTypeOf(req)
           input == InputOf(req)
           timeoutMs == TimeoutOf(req)
           logs == Log(<< >>, handlerCfg, [kind |-> "received", type |-> taskType])
           capability == Capability(taskType)
           fallback == /\ ~IsSome(capability)
                       /\ StartsWith(taskType, "google") \/ StartsWith(taskType, "task")
                       /\ IsSome(Capability(ChatType))
           call == IF IsSome(capability)
                   THEN [cap |-> The(capability).type, input |-> input]
                   ELSE [cap |-> ChatType,
                         input |-> MergeDescription(input, req.description)]
           base == [pc |-> "executing", req |-> req, taskId |-> taskId,
                    taskType |-> taskType, timeoutMs |-> timeoutMs,
                    startTime |-> clock,
                    countAtEntry |-> NewHandlerCount(handlerCfg, taskCount),
                    fallback |-> fallback, invoked |-> <<call>>,
                    timer |-> Some([ms |-> timeoutMs,
                                    at |-> clock + TimerDelay(timeoutMs)]),
                    settledBy |-> "none", handlerDone |-> FALSE, timerFired |-> FALSE,
                    caught |-> Absent, toolFailure |-> Absent,
                    response |-> Absent, via |-> via, sse |-> Absent, logs |-> logs,
                    path |-> <<"received", "resolving-capability", "executing">>]
       IN IF IsSome(capability) \/ fallback
          THEN task' = base
          ELSE task' = [base EXCEPT
                   !.pc = "responded", !.invoked = << >>, !.timer = Absent,
                   !.response = Some(UnknownTypeResponse(handlerCfg, taskId, taskType, 0)),
                   !.sse = CallerGets(via,
                               UnknownTypeResponse(handlerCfg, taskId, taskType, 0)),
                   !.path = <<"received", "resolving-capability",
                              UnknownTypeResponse(handlerCfg, taskId, taskType, 0).status>>]
    /\ UNCHANGED <<handlerCfg, clock, credVars, memVars, chat, gate>>

\* GoogleWorkspaceHandler.handleTask(request), called by the HTTP endpoint
HandleTask(req) == Dispatch(req, "handleTask")

\* GoogleWorkspaceHandler.handleSSETask(ctx, input), called by the task
\* worker, up to the await of handleTask; only src/a2a/handler.ts has it
HandleSSETask(taskId, input) ==
    /\ handlerCfg.source = "handler.ts"
    /\ Dispatch(SSERequest(taskId, input), "handleSSETask")

\* the task after the race was settled with a response; caught is what the
\* catch block received, if it ran
Respond(response, event, caught) ==
    [task EXCEPT !.pc = "responded", !.response = Some(response),
                 !.sse = CallerGets(task.via, response),
                 !.caught = caught,
                 !.path = Append(@, response.status),
                 !.logs = IF IsSome(event) THEN Log(@, handlerCfg, The(event)) ELSE @]

\* the capability handler's promise fulfils: if the race is open, handleTask
\* resumes after the await and returns completed (the fallback branch returns
\* without logging)
HandlerReturns ==
    /\ task.pc \in {"executing", "responded"}
    /\ task.invoked # << >> /\ ~task.handlerDone
    /\ LET t == IF Racing
                THEN Respond(CompletedResponse(task.taskId,
                                 HandlerResult(task.invoked[1].cap, task.invoked[1].input),
                                 clock - task.startTime),
                             IF task.fallback THEN Absent
                             ELSE Some([kind |-> "completed"]),
                             Absent)
                ELSE task
       IN task' = [t EXCEPT !.handlerDone = TRUE,
                            !.settledBy = RaceSettle(@, "handler")]
    /\ UNCHANGED <<handlerCfg, taskCount, clock, dispatched, credVars, memVars, chat, gate>>

\* (mutation) the tool lets the failure of the document service through
ToolFailureThrown(cap, error) == [rejected |-> error]

\* GoogleDocsTools: the catch block of the tool behind capability cap turns
\* the failure of the document-service call into a result,
\* { success: false, error: `Failed to ...: ${message}` }
ToolFailure(cap, error) ==
    [fulfilled |-> [success |-> FALSE,
                    error |-> [tool |-> cap, cause |-> ErrorMessage(error)]]]

\* the capability handler's promise rejects with error: if the race is open,
\* handleTask resumes in its catch block. Only the task:chat handler can
\* reject (agent.chat is awaited bare); the handlers of the document
\* capabilities return what GoogleDocsTools returns, which catches.
HandlerRejects(error) ==
    /\ task.pc \in {"executing", "responded"}
    /\ task.invoked # << >> /\ ~task.handlerDone
    /\ task.invoked[1].cap = ChatType
    /\ LET t == IF Racing
                THEN Respond(FailedResponse(handlerCfg, task.taskId, error,
                                            clock - task.startTime),
                             Some([kind |-> "failed"]), Some(error))
                ELSE task
       IN task' = [t EXCEPT !.handlerDone = TRUE,
                            !.settledBy = RaceSettle(@, "handler")]
    /\ UNCHANGED <<handlerCfg, taskCount, clock, dispatched, credVars, memVars, chat, gate>>

\* the document-service call behind a document capability fails with error:
\* the handler's promise settles with what the tool makes of the failure, and
\* if the race is open handleTask resumes after the await (a fulfilled
\* promise) or in its catch block (a rejected one)
ToolFails(error) ==
    /\ task.pc \in {"executing", "responded"}
    /\ task.invoked # << >> /\ ~task.handlerDone
    /\ task.invoked[1].cap # ChatType
    /\ LET settled == ToolFailure(task.invoked[1].cap, error)
           t == IF ~Racing THEN task
                ELSE IF "fulfilled" \in DOMAIN settled
                THEN Respond(CompletedResponse(task.taskId, settled.fulfilled,
                                               clock - task.startTime),
                             Some([kind |-> "completed"]), Absent)
                ELSE Respond(FailedResponse(handlerCfg, task.taskId, settled.rejected,
                                            clock - task.startTime),
                             Some([kind |-> "failed"]), Some(settled.rejected))
       IN task' = [t EXCEPT !.handlerDone = TRUE,
                            !.toolFailure = Some(error),
                            !.settledBy = RaceSettle(@, "handler")]
    /\ UNCHANGED <<handlerCfg, taskCount, clock, dispatched, credVars, memVars, chat, gate>>

\* the timer of executeWithTimeout fires (it is never cleared): it rejects the
\* race, and if the race is open handleTask resumes in its catch block
TimerFires ==
    /\ task.pc \in {"executing", "responded"}
    /\ IsSome(task.timer) /\ ~task.timerFired
    /\ clock >= The(task.timer).at
    /\ LET t == IF Racing
                THEN Respond(FailedResponse(handlerCfg, task.taskId,
                                            TimeoutError(The(task.timer).ms),
                                            clock - task.startTime),
                             Some([kind |-> "failed"]),
                             Some(TimeoutError(The(task.timer).ms)))
                ELSE task
       IN task' = [t EXCEPT !.timerFired = TRUE,
                            !.settledBy = RaceSettle(@, "timer")]
    /\ UNCHANGED <<handlerCfg, taskCount, clock, dispatched, credVars, memVars, chat, gate>>

\* a millisecond passes while the handler or the timer is pending
Advance ==
    /\ task.pc \in {"executing", "responded"}
    /\ task.invoked # << >>
    /\ ~task.handlerDone \/ ~task.timerFired
    /\ clock - task.startTime < MaxWait
    /\ clock' = clock + 1
    /\ UNCHANGED <<handlerCfg, taskCount, task, dispatched, credVars, memVars, chat, gate>>

\* time passes until the timer is due
AdvanceToTimer ==
    /\ task.pc \in {"executing", "responded"}
    /\ IsSome(task.timer) /\ ~task.timerFired
    /\ clock < The(task.timer).at
    /\ clock' = The(task.timer).at
    /\ UNCHANGED <<handlerCfg, taskCount, task, dispatched, credVars, memVars, chat, gate>>

\* the caller has its response and the model forgets the call: what is still
\* pending of it (the timer, the handler) can no longer reach a caller
Forget ==
    /\ task.pc = "responded"
    /\ task' = NoTask
    /\ UNCHANGED <<handlerCfg, taskCount, clock, dispatched, credVars, memVars, chat, gate>>

HandlerConfigs ==
    {[source |-> c[1], sdk |-> c[2], perTask |-> c[3],
      capabilities |-> RegisterCapabilities] :
         c \in {<<"handler.ts", TRUE, FALSE>>, <<"handler.ts", FALSE, FALSE>>,
                <<"handler.ts", FALSE, TRUE>>, <<"part_001", FALSE, FALSE>>}}

Requests ==
    [task_id : RequestTaskIds, type : RequestTypes, description : RequestDescriptions,
     input : RequestInputs, timeout_ms : RequestTimeouts]

TaskInit ==
    /\ handlerCfg \in HandlerConfigs
    /\ taskCount = 0
    /\ dispatched = 0
    /\ mem = << >> /\ memOut = NoCall
    /\ chat = NoChat(FALSE)
    /\ gate = NoGate
    /\ task = NoTask
    /\ clock = 0
    /\ store = << >> /\ authCache = << >> /\ factCache = << >>
    /\ handles = << >> /\ clients = << >>
    /\ procs = [p \in Procs |-> Idle]
    /\ writes = {} /\ tick = 0
    /\ lastAuth = [u \in Users |-> Absent]
    /\ phase = [u \in Users |-> "none"]
    /\ overlapped = FALSE

TaskNext ==
    \/ task.pc = "none" /\ \E req \in Requests : HandleTask(req)
    \/ task.pc = "none" /\ \E taskId \in SSETaskIds, input \in SSEInputs :
                               HandleSSETask(taskId, input)
    \/ HandlerReturns
    \/ \E error \in HandlerErrors : HandlerRejects(error)
    \/ \E error \in HandlerErrors : ToolFails(error)
    \/ TimerFires
    \/ Advance
    \/ AdvanceToTimer
    \/ Forget

TaskSpec == TaskInit /\ [][TaskNext]_vars

\* ================================================================ the task endpoint
\* GoogleWorkspaceServer.handleA2ATask of the per-user server (POST /a2a/tasks):
\* the body is validated, a client is looked up for the user of the context,
\* and the task is dispatched with that client.

\* the bodies of the model: whether any of task_id, type and description is
\* there, and the user_id and user_email of the context
Bodies ==
    [identified : BOOLEAN,
     user_id : {Absent} \cup {Some(u) : u \in Users},
     user_email : {Absent} \cup {Some(e) : e \in Emails}]

\* !taskRequest || (!taskRequest.task_id && !taskRequest.type && !taskRequest.description)
Malformed(body) == ~body.identified

\* (mutation) the user_email of the context is looked up before its user_id
HandleA2ATaskEmailFirst(p, body) ==
    IF Malformed(body)
    THEN /\ Begin(p)
         /\ procs' = [procs EXCEPT ![p] = [Idle EXCEPT !.op = "malformed", !.pc = "done"]]
         /\ UNCHANGED <<store, authCache, factCache, handles, clients, writes, tick,
                        lastAuth, phase, taskVars, memVars, chat, gate>>
    ELSE IF IsSome(body.user_email)
    THEN GetClientForEmail(p, The(body.user_email))
    ELSE IF IsSome(body.user_id)
    THEN GetClientForUser(p, The(body.user_id))
    ELSE /\ Begin(p)
         /\ procs' = [procs EXCEPT ![p] = [Idle EXCEPT !.op = "anonymous", !.pc = "done"]]
         /\ UNCHANGED <<store, authCache, factCache, handles, clients, writes, tick,
                        lastAuth, phase, taskVars, memVars, chat, gate>>

\* handleA2ATask(req, res) up to its first suspension point, or to its answer
\* when it makes no lookup
HandleA2ATask(p, body) ==
    IF Malformed(body)
    THEN /\ Begin(p)
         /\ procs' = [procs EXCEPT ![p] = [Idle EXCEPT !.op = "malformed", !.pc = "done"]]
         /\ UNCHANGED <<store, authCache, factCache, handles, clients, writes, tick,
                        lastAuth, phase, taskVars, memVars, chat, gate>>
    ELSE IF IsSome(body.user_id)
    THEN GetClientForUser(p, The(body.user_id))
    ELSE IF IsSome(body.user_email)
    THEN GetClientForEmail(p, The(body.user_email))
    ELSE /\ Begin(p)
         /\ procs' = [procs EXCEPT ![p] = [Idle EXCEPT !.op = "anonymous", !.pc = "done"]]
         /\ UNCHANGED <<store, authCache, factCache, handles, clients, writes, tick,
                        lastAuth, phase, taskVars, memVars, chat, gate>>

\* getToken(userId): storage.get rejects (CloudflareKVStorage: "KV get failed"),
\* the rejection passes through the factory to the catch block of handleA2ATask
ReadTokenFails(p) ==
    /\ procs[p].pc = "gu_read"
    /\ procs' = [procs EXCEPT ![p].pc = "done", ![p].err = "KV get failed"]
    /\ UNCHANGED <<store, authCache, factCache, handles, clients, writes, tick,
                   lastAuth, phase, overlapped, taskVars, memVars, chat, gate>>

\* (mutation) the answer does not depend on whether a client was found
HttpStatusUnchecked(pr) ==
    IF pr.op = "malformed" THEN 400
    ELSE IF pr.err # "" THEN 500
    ELSE 200

\* the HTTP status handleA2ATask answers a request with, once its lookup is
\* over: 400 for a malformed body, 500 from the catch block, 401 without a
\* client, and res.json(result), that is 200, after the dispatch
HttpStatus(pr) ==
    IF pr.op = "malformed" THEN 400
    ELSE IF pr.err # "" THEN 500
    ELSE IF ~IsSome(pr.res) THEN 401
    ELSE 200

EndpointNext ==
    \/ \E p \in Procs, a \in Accounts, r \in BOOLEAN :
           HandleOAuthCallback(p, a[1], a[2], r, TRUE)
    \/ \E p \in Procs : AuthIndexLand(p)
    \/ \E p \in Procs : AuthEvict(p)
    \/ \E p \in Procs, u \in Users : RemoveUser(p, u)
    \/ \E p \in Procs : RemoveIndexLand(p)
    \/ \E p \in Procs : RemovePrimaryLand(p)
    \/ \E p \in Procs : RemoveEvict(p)
    \/ \E p \in Procs, body \in Bodies : HandleA2ATask(p, body)
    \/ \E p \in Procs : ResolveEmail(p)
    \/ \E p \in Procs : ReadToken(p)
    \/ \E p \in Procs : ReadTokenFails(p)
    \/ \E p \in Procs : BuildClient(p)
    \/ \E p \in Procs : Return(p)

EndpointSpec == Init /\ [][EndpointNext]_vars

\* ================================================================ the A2A auth middleware
\* createA2AAuthMiddleware(config) and the middleware it returns. A header or
\* a key is an optional string; an Authorization header is its scheme and what
\* follows the first space.

\* the keys and tokens of the model; "" is the empty string
Secrets == {"k1", "rt", "bad", ""}

\* A2AAuthConfig: runtimeToken is what config.sdk?.getRuntimeCredentials()
\* answers, absent without an sdk or without credentials
GateConfigs ==
    [skipAuth : BOOLEAN,
     adminKey : {Absent, Some(""), Some("k1")},
     runtimeToken : {Absent, Some(""), Some("rt")}]

GateRequests ==
    [xAdminKey : {Absent} \cup {Some(k) : k \in Secrets},
     authorization : {Absent} \cup
         {Some([scheme |-> s, token |-> t]) :
              s \in {"Bearer", "bearer", "Basic"}, t \in Secrets}]

\* a string that is neither undefined nor empty
NonEmpty(o) == IsSome(o) /\ The(o) # ""

\* (mutation) the header is compared without asking whether a key is configured
AdminKeyMatchesUnguarded(config, req) == req.xAdminKey = config.adminKey

\* adminKey && config.adminKey && adminKey === config.adminKey
AdminKeyMatches(config, req) ==
    NonEmpty(req.xAdminKey) /\ NonEmpty(config.adminKey)
        /\ The(req.xAdminKey) = The(config.adminKey)

\* authHeader?.startsWith("Bearer ") and authHeader.slice(7)
BearerToken(req) ==
    IF IsSome(req.authorization) /\ The(req.authorization).scheme = "Bearer"
    THEN Some(The(req.authorization).token) ELSE Absent

\* runtimeCreds && token === runtimeCreds.runtimeToken, or
\* config.adminKey && token === config.adminKey
BearerMatches(config, req) ==
    /\ IsSome(BearerToken(req))
    /\ \/ IsSome(config.runtimeToken) /\ The(BearerToken(req)) = The(config.runtimeToken)
       \/ NonEmpty(config.adminKey) /\ The(BearerToken(req)) = The(config.adminKey)

\* what the middleware does with req: the calls of next() and the status it
\* answers with, if it answers
Decide(config, req) ==
    IF config.skipAuth \/ AdminKeyMatches(config, req) \/ BearerMatches(config, req)
    THEN [next |-> 1, status |-> Absent]
    ELSE [next |-> 0, status |-> Some(401)]

\* createA2AAuthMiddleware(config)
CreateA2AAuthMiddleware(config) ==
    /\ gate.pc = "none"
    /\ gate' = [pc |-> "ready", config |-> config]
    /\ UNCHANGED <<credVars, taskVars, memVars, chat>>

\* the middleware runs on a request, to its return
Middleware(req) ==
    /\ gate.pc \in {"ready", "decided"}
    /\ gate' = [pc |-> "decided", config |-> gate.config, req |-> req,
                next |-> Decide(gate.config, req).next,
                status |-> Decide(gate.config, req).status]
    /\ UNCHANGED <<credVars, taskVars, memVars, chat>>

GateNext ==
    \/ \E config \in GateConfigs : CreateA2AAuthMiddleware(config)
    \/ \E req \in GateRequests : Middleware(req)

GateSpec == Init /\ [][GateNext]_vars

\* ================================================================ the conversational handler
\* The handler registered under task:chat and handleNaturalLanguageWithoutLLM.
\* A message is the sequence of its words; the tools and the agent are
\* collaborators, a call to them is recorded and its result is named by the call.

\* words in a message
MaxWords == 3

Vocabulary == {"Create", "create", "doc", "Docs", "list", "search", "Search", "hello"}
Messages == UNION {[1..n -> Vocabulary] : n \in 0..MaxWords}
ChatInputs ==
    [message : {Absent} \cup {Some(m) : m \in Messages},
     description : {Absent, Some(<<"list", "Docs">>)}]

\* String.prototype.toLowerCase, on a word
ToLowerCase(word) ==
    CASE word = "Create" -> "create"
      [] word = "Docs" -> "docs"
      [] word = "Search" -> "search"
      [] OTHER -> word

\* word.includes(sub), for the words of the vocabulary and their lower case
WordIncludes(word, sub) == word = sub \/ (word = "docs" /\ sub = "doc")
\* message.includes(sub), for a sub without a space
Includes(message, sub) == \E i \in 1..Len(message) : WordIncludes(message[i], sub)

\* (input.message as string) || (input.description as string) || ""
MessageOf(input) ==
    IF IsSome(input.message) /\ The(input.message) # << >> THEN The(input.message)
    ELSE IF IsSome(input.description) /\ The(input.description) # << >>
    THEN The(input.description)
    ELSE << >>

\* message.match(/(?:search|find)\s+(?:for\s+)?["']?([^"']+)["']?/i)?.[1] || message
QueryOf(message) ==
    LET at == {i \in 1..(Len(message) - 1) : WordIncludes(message[i], "search")}
    IN IF at = {} THEN message
       ELSE SubSeq(message, (CHOOSE i \in at : \A j \in at : i <= j) + 1, Len(message))

NoOperation == [op |-> "none"]

\* (mutation) the list check comes before the create check
PatternChecksListFirst(message) ==
    IF Includes(message, "list") /\ Includes(message, "doc")
    THEN [op |-> "listDocuments"]
    ELSE IF Includes(message, "create") /\ Includes(message, "doc")
    THEN [op |-> "createDocument", title |-> "Untitled Document"]
    ELSE IF Includes(message, "search")
    THEN [op |-> "searchDrive", query |-> QueryOf(message)]
    ELSE NoOperation

\* the three checks of handleNaturalLanguageWithoutLLM on the lower-cased
\* message: the tool operation of the first that matches (no word of the
\* vocabulary is a quoted title, so the title is the default one)
PatternChecks(message) ==
    IF Includes(message, "create") /\ Includes(message, "doc")
    THEN [op |-> "createDocument", title |-> "Untitled Document"]
    ELSE IF Includes(message, "list") /\ Includes(message, "doc")
    THEN [op |-> "listDocuments"]
    ELSE IF Includes(message, "search")
    THEN [op |-> "searchDrive", query |-> QueryOf(message)]
    ELSE NoOperation

\* handleNaturalLanguageWithoutLLM(input) up to its call of a tool
HandleNaturalLanguageWithoutLLM(input) ==
    PatternChecks([i \in 1..Len(MessageOf(input)) |-> ToLowerCase(MessageOf(input)[i])])

\* (mutation) the agent is given the lower-cased message
AgentMessageLowered(input) ==
    [i \in 1..Len(MessageOf(input)) |-> ToLowerCase(MessageOf(input)[i])]

\* the message the handler passes to this.agent.chat
AgentMessage(input) == MessageOf(input)

\* { success: false, error: "Could not understand the request. ..." }
NotUnderstood == [success |-> FALSE, error |-> "Could not understand the request"]

\* the task:chat handler is called with input: it runs to its call of the
\* agent or of a tool, or to its return when no check matches
ChatHandler(input) ==
    /\ chat.pc = "idle"
    /\ chat' =
         IF chat.agent
         THEN [pc |-> "calling", agent |-> TRUE, input |-> input,
               calls |-> <<[op |-> "agent.chat", message |-> AgentMessage(input)]>>,
               result |-> Absent]
         ELSE LET operation == HandleNaturalLanguageWithoutLLM(input)
              IN IF operation = NoOperation
                 THEN [pc |-> "returned", agent |-> FALSE, input |-> input,
                       calls |-> << >>, result |-> Some(NotUnderstood)]
                 ELSE [pc |-> "calling", agent |-> FALSE, input |-> input,
                       calls |-> <<operation>>, result |-> Absent]
    /\ UNCHANGED <<taskVars, credVars, memVars, gate>>

\* the agent or the tool answers: the handler returns { response } for the
\* agent's reply, and the tool's result as it is
ChatReturns ==
    /\ chat.pc = "calling"
    /\ chat' = [chat EXCEPT
           !.pc = "returned",
           !.result = IF chat.agent
                      THEN Some([response |-> [replyTo |-> chat.calls[1].message]])
                      ELSE Some([resultOf |-> chat.calls[1]])]
    /\ UNCHANGED <<taskVars, credVars, memVars, gate>>

\* the caller has the handler's result
ChatForget ==
    /\ chat.pc = "returned"
    /\ chat' = NoChat(chat.agent)
    /\ UNCHANGED <<taskVars, credVars, memVars, gate>>

ChatInit ==
    /\ chat \in {NoChat(FALSE), NoChat(TRUE)}
    /\ gate = NoGate
    /\ handlerCfg = [source |-> "handler.ts", sdk |-> FALSE, perTask |-> FALSE,
                     capabilities |-> RegisterCapabilities]
    /\ taskCount = 0 /\ dispatched = 0 /\ task = NoTask /\ clock = 0
    /\ mem = << >> /\ memOut = NoCall
    /\ store = << >> /\ authCache = << >> /\ factCache = << >>
    /\ handles = << >> /\ clients = << >>
    /\ procs = [p \in Procs |-> Idle]
    /\ writes = {} /\ tick = 0
    /\ lastAuth = [u \in Users |-> Absent]
    /\ phase = [u \in Users |-> "none"]
    /\ overlapped = FALSE

ChatNext ==
    \/ \E input \in ChatInputs : ChatHandler(input)
    \/ ChatReturns
    \/ ChatForget

ChatSpec == ChatInit /\ [][ChatNext]_vars


\* ================================================================ the in-memory store
\* InMemoryStateStorage (src/storage/memory.ts): a Map from key to StoredValue
\* { value, expiresAt? }. A key is its segments between colons, as in the
\* credential store above; clock is Date.now().

\* seconds that pass in a run, one at a time
MaxSeconds == 2

StorageKeySet == {<<"token", "u1">>, <<"oauth", "token", "u1">>, <<"email", "a@x.com">>}
StorageValues == {"v1", "v2"}
\* ttl, in seconds: undefined, 0 and 1
StorageTtls == {Absent, Some(0), Some(1)}

\* entry.expiresAt && Date.now() > entry.expiresAt
Expired(entry, now) ==
    IsSome(entry.expiresAt) /\ The(entry.expiresAt) # 0 /\ now > The(entry.expiresAt)

\* get(key): an expired entry is deleted and reported absent
StorageGet(k) ==
    /\ \/ /\ k \notin DOMAIN mem
          /\ mem' = mem
          /\ memOut' = [op |-> "get", key |-> k, result |-> Absent]
       \/ /\ k \in DOMAIN mem /\ Expired(mem[k], clock)
          /\ mem' = Del(mem, k)
          /\ memOut' = [op |-> "get", key |-> k, result |-> Absent]
       \/ /\ k \in DOMAIN mem /\ ~Expired(mem[k], clock)
          /\ mem' = mem
          /\ memOut' = [op |-> "get", key |-> k, result |-> Some(mem[k].value)]
    /\ UNCHANGED <<clock, handlerCfg, taskCount, task, dispatched, credVars, chat, gate>>

\* set(key, value, ttl): a new entry replaces the old one; it expires only
\* if ttl is truthy
StorageSet(k, v, ttl) ==
    /\ mem' = Put(mem, k,
                  [value |-> v,
                   expiresAt |-> IF IsSome(ttl) /\ The(ttl) # 0
                                 THEN Some(clock + The(ttl) * 1000) ELSE Absent])
    /\ memOut' = [op |-> "set", key |-> k, value |-> v, ttl |-> ttl]
    /\ UNCHANGED <<clock, handlerCfg, taskCount, task, dispatched, credVars, chat, gate>>

\* delete(key)
StorageDelete(k) ==
    /\ mem' = Del(mem, k)
    /\ memOut' = [op |-> "delete", key |-> k]
    /\ UNCHANGED <<clock, handlerCfg, taskCount, task, dispatched, credVars, chat, gate>>

\* exists(key): (await this.get(key)) !== null
StorageExists(k) ==
    /\ mem' = IF k \in DOMAIN mem /\ Expired(mem[k], clock) THEN Del(mem, k) ELSE mem
    /\ memOut' = [op |-> "exists", key |-> k,
                  result |-> k \in DOMAIN mem /\ ~Expired(mem[k], clock)]
    /\ UNCHANGED <<clock, handlerCfg, taskCount, task, dispatched, credVars, chat, gate>>

\* keys(pattern) for a pattern `${prefix}:*`: the keys of the Map that the
\* regular expression made from the pattern matches
StorageKeys(prefix) ==
    /\ memOut' = [op |-> "keys", prefix |-> prefix, result |-> KeysMatching(mem, prefix)]
    /\ UNCHANGED <<mem, clock, handlerCfg, taskCount, task, dispatched, credVars, chat, gate>>

\* a second passes
StorageSecond ==
    /\ clock < MaxSeconds * 1000
    /\ clock' = clock + 1000
    /\ memOut' = NoCall
    /\ UNCHANGED <<mem, handlerCfg, taskCount, task, dispatched, credVars, chat, gate>>

StorageNext ==
    \/ \E k \in StorageKeySet : StorageGet(k)
    \/ \E k \in StorageKeySet, v \in StorageValues, ttl \in StorageTtls : StorageSet(k, v, ttl)
    \/ \E k \in StorageKeySet : StorageDelete(k)
    \/ \E k \in StorageKeySet : StorageExists(k)
    \/ \E prefix \in {"token", "email"} : StorageKeys(prefix)
    \/ StorageSecond

StorageSpec == Init /\ [][StorageNext]_vars

\* ================================================================ properties
Lookups == {"getUser", "getEmail"}
\* request p has been handed a service client and runs its capability handler
Holding(p) == procs[p].pc = "done" /\ procs[p].op \in Lookups /\ IsSome(procs[p].res)
\* the UserToken behind the client request p holds
HandleOf(p) == handles[clients[The(procs[p].res)]]
\* the credential persisted under token:<u>
Stored(u) == Parse(store[TokenKey(u)])
\* GoogleAuthManager.hasUser / hasUserByEmail
HasUser(u) == Exists(store, TokenKey(u))
HasUserByEmail(e) == IsSome(Get(store, EmailKey(e)))

\* C1: a request whose context names user u (by user_id, or by a user_email
\* that the index resolved to u) runs its handler on a client whose handle was
\* built from u's credential: the handle's UserToken is u's and both of its
\* tokens were issued to u, under every interleaving of requests.
C1_NoCrossUserClient ==
    \A p \in Procs :
        Holding(p) =>
            /\ HandleOf(p).userId = procs[p].u
            /\ Owner(HandleOf(p).accessToken) = procs[p].u
            /\ Owner(HandleOf(p).refreshToken) = procs[p].u

\* two requests of different users hold clients at the same time
C1_Witness ==
    \E p, q \in Procs :
        /\ Holding(p) /\ Holding(q)
        /\ procs[p].u # procs[q].u
        /\ procs[p].op = "getUser" /\ procs[q].op = "getEmail"

\* C2 (as claimed): once every operation has completed, email:<e> holds u
\* exactly when token:<u> exists and its credential has email e.
C2_IndexMatchesPrimary ==
    (Sequential /\ Quiet) =>
        \A e \in Emails, u \in Users :
            (Get(store, EmailKey(e)) = Some(u)) <=> (HasUser(u) /\ Stored(u).email = e)

\* C3 (as claimed): in a run without concurrency, getClientForUser(u) after a
\* completed authorization of u returns a client whose handle carries the
\* refresh token that authorization issued.
C3_FreshHandleAfterAuthorization ==
    \A p \in Procs :
        (Sequential /\ Holding(p) /\ procs[p].op = "getUser"
                    /\ IsSome(lastAuth[procs[p].u])) =>
            HandleOf(p).refreshToken = The(lastAuth[procs[p].u])

\* C4 (as claimed): in a run without concurrency, once every operation and
\* every refresh write has completed, the persisted refreshToken of u is the
\* one issued by u's most recent authorization.
C4_RefreshTokenOnlyFromAuthorization ==
    (Sequential /\ Quiet) =>
        \A u \in Users :
            (HasUser(u) /\ IsSome(lastAuth[u])) =>
                Stored(u).refreshToken = The(lastAuth[u])

\* C5 (as claimed): once every request and every refresh callback has
\* completed, the credential persisted for u agrees with the UserToken of the
\* handle cached for u on accessToken, expiresAt and updatedAt, whenever the
\* two stem from the same authorization (carry the same refresh token).
C5_RefreshWriteThrough ==
    Quiet =>
        \A u \in Users :
            (IsSome(CacheGet(authCache, u)) /\ HasUser(u)
                 /\ Stored(u).refreshToken = handles[authCache[u]].refreshToken) =>
                LET t == handles[authCache[u]]
                    d == Stored(u)
                IN /\ d.accessToken = t.accessToken
                   /\ d.expiresAt = t.expiresAt
                   /\ d.updatedAt = t.updatedAt

\* C6: in a run without concurrency, getClientForUser(u) returns absent while u
\* has no credential (never authorized, or removed since), and after exactly
\* one authorization since then it returns a client whose handle carries the
\* refresh token of that authorization, hence a handle built after the removal.
C6_RemoveThenReauthorize ==
    \A p \in Procs :
        (Sequential /\ procs[p].pc = "done" /\ procs[p].op = "getUser") =>
            /\ phase[procs[p].u] = "none" => procs[p].res = Absent
            /\ phase[procs[p].u] = "once" =>
                   /\ IsSome(procs[p].res)
                   /\ HandleOf(p).refreshToken = The(lastAuth[procs[p].u])

\* u1 was authorized as a@x.com and as b@x.com, removed (which left the entry
\* email:a@x.com behind), authorized once more, and then looked up
C6_Witness ==
    \E p \in Procs :
        /\ Sequential /\ Holding(p) /\ procs[p].op = "getUser" /\ procs[p].u = "u1"
        /\ phase["u1"] = "once"
        /\ Get(store, EmailKey("a@x.com")) = Some("u1")
        /\ Stored("u1").email = "b@x.com"
        /\ HandleOf(p).refreshToken = The(lastAuth["u1"])

\* C7: the step of handleOAuthCallback that finds no refresh token in the
\* exchange response ends the call with the missing-refresh-token error and
\* changes neither the store nor a cache nor any client (so keys that did not
\* exist before the call do not exist after it).
C7_MissingRefreshTokenPersistsNothing ==
    [][\A p \in Procs :
          (~Active(p) /\ procs'[p].op = "auth" /\ procs'[p].pc = "done") =>
              /\ procs'[p].err = "No refresh token received"
              /\ store' = store
              /\ authCache' = authCache /\ factCache' = factCache
              /\ handles' = handles /\ clients' = clients]_vars

\* with a credential stored and a client cached for another user, a first
\* authorization of an account failed and neither of its keys exists
C7_Witness ==
    \E p \in Procs :
        /\ procs[p].op = "auth" /\ procs[p].pc = "done"
        /\ procs[p].err = "No refresh token received"
        /\ ~Exists(store, TokenKey(procs[p].u))
        /\ ~Exists(store, EmailKey(procs[p].e))
        /\ DOMAIN store # {} /\ DOMAIN factCache # {} /\ DOMAIN authCache # {}

\* C8 (as claimed): in a run without concurrency, after every completed
\* operation hasUser and hasUserByEmail agree: a stored user is found under the
\* email of its credential, and an email that is found belongs to a stored user.
C8_HasUserAgreesWithHasUserByEmail ==
    (Sequential /\ Quiet) =>
        /\ \A u \in Users : HasUser(u) => HasUserByEmail(Stored(u).email)
        /\ \A e \in Emails : HasUserByEmail(e) => HasUser(The(Get(store, EmailKey(e))))

\* C9: a step of getClientForUser / getClientForEmail that finds no index entry
\* or no credential ends the lookup with absent and without an error, and no
\* step of a lookup that has not produced a client changes the store or a cache.
C9_AbsentLookupChangesNothing ==
    [][\A p \in Procs :
          /\ (procs[p].pc \in {"ge_resolved", "gu_build"} /\ ~IsSome(procs[p].val)
                  /\ procs'[p] # procs[p]) =>
                (procs'[p].pc = "done" /\ procs'[p].res = Absent /\ procs'[p].err = "")
          /\ (procs'[p] # procs[p] /\ procs'[p].op \in Lookups
                  /\ procs'[p].res = Absent) =>
                (store' = store /\ authCache' = authCache /\ factCache' = factCache)]_vars

\* a lookup by id and a lookup by email have both ended with absent
C9_Witness ==
    \E p, q \in Procs :
        /\ procs[p].pc = "done" /\ procs[p].op = "getUser" /\ procs[p].res = Absent
        /\ procs[q].pc = "done" /\ procs[q].op = "getEmail" /\ procs[q].res = Absent

\* C10 (as claimed): in a run without concurrency, the client getClientForEmail
\* returns for an email of user u is the one the factory caches under u.
C10_EmailLookupSharesCache ==
    \A p \in Procs :
        (Sequential /\ Holding(p) /\ procs[p].op = "getEmail") =>
            CacheGet(factCache, procs[p].u) = procs[p].res

\* C11: in a run without concurrency, no step of removeUser(u) for a user
\* without a credential (never authorized, or removed before) changes the store
\* or a cache, and such a removal finds no credential to delete: removing twice
\* leaves what removing once left.
C11_RemoveUserIdempotent ==
    [][\A p \in Procs :
          /\ (Sequential' /\ ~Active(p) /\ procs'[p].op = "remove"
                   /\ phase[procs'[p].u] = "none") =>
                 (procs'[p].val = Absent /\ procs'[p].err = "")
          /\ (Sequential /\ procs[p].op = "remove" /\ phase[procs[p].u] = "none"
                   /\ procs'[p] # procs[p]) =>
                 (store' = store /\ authCache' = authCache /\ factCache' = factCache
                      /\ procs'[p].err = "")]_vars

\* u1 was authorized under two addresses and removed (the entry email:a@x.com
\* is what that left behind); a second removeUser(u1) has gone through its
\* deletes while u2 has a credential and a cached client
C11_Witness ==
    \E p \in Procs :
        /\ Sequential /\ procs[p].op = "remove" /\ procs[p].pc = "rm_evict"
        /\ procs[p].u = "u1" /\ phase["u1"] = "none"
        /\ Get(store, EmailKey("a@x.com")) = Some("u1")
        /\ HasUser("u2") /\ IsSome(CacheGet(authCache, "u2"))
        /\ IsSome(CacheGet(factCache, "u2"))

\* the users listUsers returned to request p
Listed(p) == The(procs[p].val).tokens

\* C12: in a run without concurrency, listUsers() returns one UserToken for
\* each user authorized and not removed since, and nothing else: as many
\* entries as there are such users, with pairwise distinct userIds, each the
\* stored credential of its user.
C12_ListUsersOnePerCredential ==
    \A p \in Procs :
        (Sequential /\ procs[p].op = "list" /\ procs[p].pc = "done") =>
            LET authorized == {u \in Users : phase[u] # "none"}
            IN /\ Len(Listed(p)) = Cardinality(authorized)
               /\ {Listed(p)[i].userId : i \in 1..Len(Listed(p))} = authorized
               /\ \A i \in 1..Len(Listed(p)) :
                      Listed(p)[i] = Stored(Listed(p)[i].userId)

\* listUsers returned u2 alone: u1 was authorized under two addresses and
\* removed, which left an index entry behind
C12_Witness ==
    \E p \in Procs :
        /\ Sequential /\ procs[p].op = "list" /\ procs[p].pc = "done"
        /\ Len(Listed(p)) = 1 /\ Listed(p)[1].userId = "u2"
        /\ Get(store, EmailKey("a@x.com")) = Some("u1")
        /\ phase["u1"] = "none"

\* ================================================================ dispatcher properties
\* the handler logs at all: part_001 logs to the console, handler.ts through
\* the sdk it was constructed with
Logging == handlerCfg.source = "part_001" \/ handlerCfg.sdk
\* the task has returned its response to the caller
Responded == task.pc = "responded"
\* a capability handler was started for the task
Executed == task.pc \in {"executing", "responded"} /\ task.invoked # << >>
\* the events logged for the task once its outcome was known
OutcomeEvents == {i \in 1..Len(task.logs) : task.logs[i].kind # "received"}

\* C13: whichever of the handler and the timer wins the race, a task that ran a
\* handler and returned its response has emitted exactly one log event for
\* its outcome (a handler that logs at all).
C13_OneOutcomeEvent ==
    (Responded /\ Executed /\ Logging) => Cardinality(OutcomeEvents) = 1

\* the response handleTask returned
Response == The(task.response)
\* the timer of executeWithTimeout settled the race of the task
TimedOut == Responded /\ Executed /\ task.settledBy = "timer"

\* C14: a task whose timer expires before its handler returns is answered
\* with status timeout, error code timeout, a message naming the configured
\* duration, and an execution time of at least that duration.
C14_TimeoutStatus ==
    TimedOut =>
        /\ Response.status = "timeout"
        /\ The(Response.error).code = "timeout"
        /\ The(Response.error).message.ms = Some(task.timeoutMs)
        /\ Response.execution_time_ms >= task.timeoutMs

\* the keys of the capability registry
Registered == {GetCapabilities[i] : i \in 1..Len(GetCapabilities)}
\* the type names a namespace-prefixed task of a recognised domain
Prefixed(t) == Len(t) >= 2 /\ t[1] \in {"google", "task"}

\* C15: a task whose type is not registered and does not start with google:
\* or task: is answered with status rejected or failed and error code
\* unknown_task_type, no handler is invoked for it, and the error message
\* lists every registered capability key exactly once.
C15_UnknownTypeRejected ==
    (Responded /\ task.taskType \notin Registered /\ ~Prefixed(task.taskType)) =>
        /\ Response.status \in {"rejected", "failed"}
        /\ The(Response.error).code = "unknown_task_type"
        /\ task.invoked = << >> /\ ~IsSome(task.timer)
        /\ LET available == The(Response.error).message.available
           IN /\ \A k \in Registered :
                     Cardinality({i \in 1..Len(available) : available[i] = k}) = 1
              /\ \A i \in 1..Len(available) : available[i] \in Registered

\* the second task of a run, of type "google" (no colon after the prefix),
\* was answered as an unknown type with the seven registered keys
C15_Witness ==
    /\ Responded /\ task.taskType = <<"google">>
    /\ The(Response.error).code = "unknown_task_type"
    /\ Len(The(Response.error).message.available) = 7
    /\ taskCount = 2

\* the statuses, and the shape, of a TaskResponse
TaskStatuses == {"completed", "failed", "rejected", "timeout"}
IsTaskResponse(r) ==
    /\ r.task_id = task.taskId
    /\ r.status \in TaskStatuses
    /\ r.execution_time_ms >= 0
    /\ IsSome(r.output) = (r.status = "completed")
    /\ IsSome(r.error) = (r.status # "completed")
\* the handler of the task rejected and its failure was caught by handleTask
HandlerFailed == Responded /\ IsSome(task.caught) /\ task.settledBy = "handler"

\* C16: whatever settles the race (the handler's result, its rejection with
\* an Error or with another value, the timer), handleTask returns a
\* TaskResponse; a handler failure whose description does not mention a
\* timeout gives status failed, error code execution_error and the failure's
\* description as the error message.
C16_FailuresNormalized ==
    /\ (task.pc = "executing" => task.settledBy = "none")
    /\ (Responded => IsTaskResponse(Response))
    /\ HandlerFailed =>
          LET description == ErrorMessage(The(task.caught))
          IN (\A i \in 1..Len(description.text) : description.text[i] # "timeout") =>
                 /\ Response.status = "failed"
                 /\ The(Response.error).code = "execution_error"
                 /\ The(Response.error).message = description

\* a handler rejected with the number 503, not an Error, and the caller got
\* a failed response with the message "503"
C16_Witness ==
    /\ HandlerFailed /\ ~The(task.caught).isError
    /\ Response.status = "failed"
    /\ The(Response.error).message.text = <<"503">>

\* C17: a task that was answered went received, resolving-capability and then
\* either straight to rejected, with no handler invoked, or through executing,
\* with a handler invoked, to exactly one of completed, failed and timeout.
C17_TaskLifecycle ==
    Responded =>
        IF task.invoked = << >>
        THEN task.path = <<"received", "resolving-capability", "rejected">>
        ELSE \E s \in {"completed", "failed", "timeout"} :
                 /\ task.path = <<"received", "resolving-capability", "executing", s>>
                 /\ Response.status = s

\* the handler of the task returned before the timer and settled the race
HandlerWon == Responded /\ Executed /\ task.settledBy = "handler" /\ ~IsSome(task.caught)

\* C18: there are seven registered types; a request of one of them that
\* carries an input invokes the handler registered under that type, and no
\* other, with that input, and when the handler returns before the timer the
\* response is completed with the handler's result as output.
C18_RegisteredTypeDispatch ==
    /\ Cardinality(Registered) = 7
    /\ (task.pc \in {"executing", "responded"}
            /\ task.req.type \in Registered /\ IsSome(task.req.input)) =>
          /\ task.invoked = <<[cap |-> task.req.type, input |-> The(task.req.input)]>>
          /\ HandlerWon =>
                /\ Response.status = "completed"
                /\ Response.output \in
                       {Some(HandlerResult(task.req.type, The(task.req.input)))}
                           \cup {Some(ToolFailure(task.req.type, e).fulfilled) :
                                     e \in HandlerErrors}
                /\ ~IsSome(Response.error)

\* a google:drive:search task with an input was completed by its handler
C18_Witness ==
    /\ HandlerWon /\ task.req.type = <<"google", "drive", "search">>
    /\ IsSome(task.req.input)
    /\ Response.status = "completed"
    /\ The(Response.output).by = <<"google", "drive", "search">>

\* C19: a task whose type is not registered but starts with google: or task:
\* is not answered as an unknown type: the task:chat handler, and no other, is
\* invoked with the request input extended by the request's description, the
\* timer is armed as for any task, and the outcome is normalized as usual:
\* completed with the chat handler's result if it returns first, a timeout
\* error if the timer wins, the handler's failure otherwise.
C19_PrefixFallback ==
    (task.pc \in {"executing", "responded"}
        /\ task.taskType \notin Registered /\ Prefixed(task.taskType)) =>
        LET given == [k \in DOMAIN InputOf(task.req) \cup {"description"} |->
                         IF k = "description" THEN task.req.description
                         ELSE InputOf(task.req)[k]]
        IN /\ task.invoked = <<[cap |-> <<"task", "chat">>, input |-> given]>>
           /\ task.timer = Some([ms |-> TimeoutOf(task.req),
                                 at |-> task.startTime + TimerDelay(TimeoutOf(task.req))])
           /\ Responded =>
                 /\ IsSome(Response.error) =>
                        The(Response.error).code # "unknown_task_type"
                 /\ task.settledBy \in {"handler", "timer"}
                 /\ HandlerWon =>
                       /\ Response.status = "completed"
                       /\ Response.output = Some(HandlerResult(<<"task", "chat">>, given))
                 /\ TimedOut =>
                       /\ The(Response.error).code = "timeout"
                       /\ Response.execution_time_ms >= TimerDelay(task.timeoutMs)
                 /\ HandlerFailed =>
                       /\ Response.status \in {"failed", "timeout"}
                       /\ The(Response.error).message = ErrorMessage(The(task.caught))

\* a google:sheets:read task whose input already had a description was
\* completed by the chat handler, called with the request's description
C19_Witness ==
    /\ HandlerWon /\ task.taskType = <<"google", "sheets", "read">>
    /\ IsSome(task.req.input) /\ IsSome(task.req.description)
    /\ The(Response.output).by = <<"task", "chat">>
    /\ The(Response.output).given["description"] = task.req.description
    /\ The(task.req.input)["description"] # task.req.description

\* C20: the timer raced against the handler is armed with the request's
\* timeout_ms when that is a positive number and with 30000 when it is
\* absent, zero or negative: never with a duration that is not positive.
C20_TimeoutDefault ==
    (Executed /\ IsSome(task.timer)) =>
        LET given == task.req.timeout_ms
        IN /\ The(task.timer).ms > 0
           /\ The(task.timer).ms =
                  IF IsSome(given) /\ The(given) > 0 THEN The(given) ELSE 30000

\* C21: the task counter is process-wide: after N tasks were dispatched in
\* the process, the counter of the handler that dispatched the last one
\* reads N.
C21_CounterReadsDispatched == taskCount = dispatched

\* the entry under key k has not expired
Live(k) ==
    k \in DOMAIN mem /\ (IsSome(mem[k].expiresAt) => clock <= The(mem[k].expiresAt))

\* C23: keys("token:*") returns exactly the live keys that start with token:
C23_KeysOfPrefix ==
    (memOut.op = "keys" /\ memOut.prefix = "token") =>
        memOut.result = {k \in DOMAIN mem : Live(k) /\ k[1] = "token"}

\* the operations of a request slot that are POST /a2a/tasks requests
TaskOps == {"malformed", "anonymous", "getUser", "getEmail"}
\* request p is a task request whose lookup is over
Answered(p) == procs[p].pc = "done" /\ procs[p].op \in TaskOps

\* C22: POST /a2a/tasks answers 400 to a body without task_id, type and
\* description, 500 when the lookup fails unexpectedly, 401 when no client is
\* resolved for the user of the context, and 200 once the task was dispatched
\* with a client; a request answered with 400 or 401 is handed no client, and
\* no step of it constructs or caches one.
C22_EndpointStatus ==
    /\ [](\A p \in Procs : Answered(p) =>
              LET pr == procs[p]
              IN /\ pr.op = "malformed" => (HttpStatus(pr) = 400 /\ ~Holding(p))
                 /\ (pr.op # "malformed" /\ pr.err # "") =>
                        (HttpStatus(pr) = 500 /\ ~Holding(p))
                 /\ (pr.op # "malformed" /\ pr.err = "" /\ ~IsSome(pr.res)) =>
                        (HttpStatus(pr) = 401 /\ ~Holding(p))
                 /\ Holding(p) => HttpStatus(pr) = 200)
    /\ [][\A p \in Procs :
              (procs'[p] # procs[p] /\ procs'[p].op \in TaskOps
                   /\ ~IsSome(procs'[p].res)) =>
                  UNCHANGED <<factCache, authCache, clients, handles>>]_vars

\* a request naming an address whose index entry points to a user without a
\* credential was answered 401 while another user's client is cached
C22_Witness ==
    /\ Answered("p1") /\ procs["p1"].op = "getEmail" /\ procs["p1"].u # ""
    /\ HttpStatus(procs["p1"]) = 401
    /\ DOMAIN factCache # {}

\* request p is a getClientForUser call that has read a credential and is
\* about to build its client
Building(p) ==
    procs[p].op = "getUser" /\ procs[p].pc = "gu_build" /\ IsSome(procs[p].val)

\* C24: a getClientForUser(u) call that found u's credential returns a client
\* for u and leaves it in the factory cache, also when another call for u
\* built and cached a client in the meantime (the last one written stays); a
\* call made while a client is cached for u returns that client and builds
\* nothing; and the cached client of u is replaced or dropped only by a call
\* for u that was already in flight, by removeUser(u) or by an authorization
\* of u.
C24_ConcurrentFirstLookups ==
    [][/\ \A p \in Procs :
              (Building(p) /\ procs'[p] # procs[p]) =>
                  /\ procs'[p].pc = "done" /\ IsSome(procs'[p].res)
                  /\ handles'[clients'[The(procs'[p].res)]].userId = procs[p].u
                  /\ CacheGet(factCache', procs[p].u) = procs'[p].res
       /\ \A p \in Procs :
              (procs[p].pc = "idle" /\ procs'[p].op = "getUser"
                   /\ IsSome(CacheGet(factCache, procs'[p].u))) =>
                  /\ procs'[p].pc = "done"
                  /\ procs'[p].res = CacheGet(factCache, procs'[p].u)
                  /\ UNCHANGED <<factCache, authCache, clients, handles>>
       /\ \A u \in Users :
              (IsSome(CacheGet(factCache, u))
                   /\ CacheGet(factCache', u) # CacheGet(factCache, u)) =>
                  \E p \in Procs :
                      /\ procs[p].u = u /\ procs'[p] # procs[p]
                      /\ \/ Building(p)
                         \/ procs[p].op = "remove" /\ procs[p].pc = "rm_evict"
                         \/ procs[p].op = "auth" /\ procs[p].pc = "auth_evict"
      ]_vars

\* two overlapping first-time calls for u1 have both returned, with two
\* different clients; the cache holds the one of the second
C24_Witness ==
    /\ Answered("p1") /\ Answered("p2")
    /\ procs["p1"].op = "getUser" /\ procs["p2"].op = "getUser"
    /\ procs["p1"].u = "u1" /\ procs["p2"].u = "u1"
    /\ IsSome(procs["p1"].res) /\ IsSome(procs["p2"].res)
    /\ procs["p1"].res # procs["p2"].res
    /\ CacheGet(factCache, "u1") = procs["p2"].res
    /\ Cardinality(DOMAIN clients) = 2

\* user u has no authorization in progress and has completed none since it
\* was last removed (or ever)
Disconnected(u) ==
    /\ phase[u] = "none"
    /\ \A p \in Procs : ~(procs[p].op = "auth" /\ procs[p].u = u)
\* the store holds a credential of user u: its token entry, or an email index
\* entry that points to it
HasCredential(u) ==
    HasUser(u) \/ \E e \in Emails : Get(store, EmailKey(e)) = Some(u)

\* C25: once removeUser(u) has completed and the store holds no credential
\* for u (no token:<u> entry, no email index entry pointing to u), it holds
\* none until the next authorization of u: no other step, and in particular
\* no refresh event or refresh write of a handle obtained before the
\* removal, stores one.
C25_RemovedStaysRemoved ==
    [][\A u \in Users :
           (Disconnected(u) /\ ~HasCredential(u) /\ HasCredential(u)') =>
               \E p \in Procs : procs'[p].op = "auth" /\ procs'[p].u = u]_vars

\* C26: a client is cached for user u only while a credential for u is
\* stored: when no call is in flight and the store has no token for u,
\* neither the factory cache nor the manager cache holds an entry for u.
C26_NoCacheWithoutCredential ==
    \A u \in Users :
        (Quiet /\ ~HasUser(u)) =>
            (~IsSome(CacheGet(factCache, u)) /\ ~IsSome(CacheGet(authCache, u)))

\* the catch block of handleTask produced the response of the task
Caught == Responded /\ IsSome(task.caught)
\* the message of the caught failure mentions a timeout
MentionsTimeout ==
    LET text == ErrorMessage(The(task.caught)).text
    IN \E i \in 1..Len(text) : text[i] = "timeout"

\* C27: a failure caught by the dispatcher whose message contains "timeout",
\* raised by the timer or by the handler itself, gives a response with status
\* timeout and error code timeout; any other failure gives status failed and
\* error code execution_error.
C27_TimeoutClassification ==
    Caught =>
        IF MentionsTimeout
        THEN Response.status = "timeout" /\ The(Response.error).code = "timeout"
        ELSE Response.status = "failed" /\ The(Response.error).code = "execution_error"

\* the task:chat handler has acted on its input: it called a collaborator or
\* returned
ChatActed == chat.pc \in {"calling", "returned"}
\* the lower-cased message of the input has a word that includes sub
Lowered(sub) ==
    \E i \in 1..Len(MessageOf(chat.input)) :
        LET word == MessageOf(chat.input)[i]
        IN \/ word = sub
           \/ sub = "create" /\ word = "Create"
           \/ sub = "search" /\ word = "Search"
           \/ sub = "doc" /\ word = "Docs"

\* C28: without an agent, the conversational handler checks the lower-cased
\* message for create and doc, then for list and doc, then for search, and
\* calls the tool of the first check that matches and no other; when none
\* matches it calls no tool and returns a structured failure.
C28_PatternChecksInOrder ==
    (ChatActed /\ ~chat.agent) =>
        /\ Len(chat.calls) <= 1
        /\ IF Lowered("create") /\ Lowered("doc")
           THEN Len(chat.calls) = 1 /\ chat.calls[1].op = "createDocument"
           ELSE IF Lowered("list") /\ Lowered("doc")
           THEN Len(chat.calls) = 1 /\ chat.calls[1].op = "listDocuments"
           ELSE IF Lowered("search")
           THEN Len(chat.calls) = 1 /\ chat.calls[1].op = "searchDrive"
           ELSE /\ chat.calls = << >>
                /\ chat.pc = "returned"
                /\ ~The(chat.result).success

\* "Create list Docs" matches the first two checks once lower-cased, and
\* only a document was created
C28_Witness ==
    /\ chat.pc = "returned" /\ ~chat.agent
    /\ MessageOf(chat.input) = <<"Create", "list", "Docs">>
    /\ chat.calls = <<[op |-> "createDocument", title |-> "Untitled Document"]>>

\* C29: with an agent, the conversational handler calls the agent once, with
\* the message as it was written (not lower-cased), calls no tool, and
\* returns the agent's reply wrapped as { response }.
C29_AgentGetsRawMessage ==
    (ChatActed /\ chat.agent) =>
        LET raw == IF IsSome(chat.input.message) /\ The(chat.input.message) # << >>
                   THEN The(chat.input.message)
                   ELSE IF IsSome(chat.input.description)
                   THEN The(chat.input.description) ELSE << >>
        IN /\ chat.calls = <<[op |-> "agent.chat", message |-> raw]>>
           /\ chat.pc = "returned" =>
                  chat.result = Some([response |-> [replyTo |-> raw]])

\* the agent was given "Create list Docs" with its capitals, a message that
\* would have created a document without an agent
C29_Witness ==
    /\ chat.pc = "returned" /\ chat.agent
    /\ chat.calls[1].message = <<"Create", "list", "Docs">>
    /\ The(chat.result).response.replyTo = <<"Create", "list", "Docs">>

\* ---------------------------------------------------------------- the registry
\* the seven task types the constructor registers
SevenKeys ==
    {<<"google", "docs", "create">>, <<"google", "docs", "read">>,
     <<"google", "docs", "update">>, <<"google", "docs", "append">>,
     <<"google", "docs", "list">>, <<"google", "drive", "search">>,
     <<"task", "chat">>}

\* the entries of a map in the opposite insertion order
Reversed(entries) == [i \in 1..Len(entries) |-> entries[Len(entries) + 1 - i]]

\* what the constructor registers: seven entries under the seven types, no
\* two under one key, each with its key as type, and found under its key
\* whatever the order of insertion
RegistryAsBuilt ==
    LET entries == RegisterCapabilities
        reversed == Reversed(entries)
    IN /\ Len(entries) = 7
       /\ {entries[i].key : i \in 1..7} = SevenKeys
       /\ \A i, j \in 1..Len(entries) : entries[i].key = entries[j].key => i = j
       /\ \A i \in 1..Len(entries) : entries[i].value.type = entries[i].key
       /\ \A t \in RequestTypes :
              LET capability == MapGet(entries, t)
              IN /\ MapGet(reversed, t) = capability
                 /\ IsSome(capability) <=> t \in SevenKeys
                 /\ IsSome(capability) => The(capability).type = t

\* C30: the registry is fixed at construction. Before, during and after any
\* handleTask calls, this.capabilities is what the constructor registered,
\* getCapabilities() lists the seven registered types and nothing else, no two
\* entries share a key, the type of each entry is the key it is registered
\* under, and a lookup finds the same capability whatever the order the
\* entries were inserted in.
C30_RegistryFixed ==
    /\ handlerCfg.capabilities = RegisterCapabilities
    /\ Len(GetCapabilities) = 7
    /\ {GetCapabilities[i] : i \in 1..7} = SevenKeys
    /\ RegistryAsBuilt

\* C30 witness: a second task has been answered, one that a capability ran
\* for, and the registry still lists seven types
C30_Witness ==
    /\ dispatched = MaxTasks /\ task.pc = "responded"
    /\ task.invoked # << >> /\ task.handlerDone
    /\ Len(GetCapabilities) = 7

\* ---------------------------------------------------------------- request defaults
\* C31: the response carries the request's task_id when the request has one
\* and an id generated from the time of the call otherwise; a request without
\* a type is dispatched to the task:chat capability; a request without an
\* input is dispatched with the input { message: description }.
C31_RequestDefaults ==
    /\ Responded =>
           Response.task_id = IF task.req.task_id # "" THEN <<task.req.task_id>>
                              ELSE <<"task", task.startTime>>
    /\ (task.pc \in {"executing", "responded"} /\ task.req.type = << >>) =>
           /\ task.taskType = <<"task", "chat">>
           /\ Len(task.invoked) = 1 /\ task.invoked[1].cap = <<"task", "chat">>
    /\ (Executed /\ ~IsSome(task.req.input)) =>
           /\ task.invoked[1].input["message"] = task.req.description
           /\ DOMAIN task.invoked[1].input \subseteq {"message", "description"}
           /\ task.taskType \in Registered =>
                  task.invoked[1].input = ("message" :> task.req.description)

\* C31 witness: a request with no task_id, no type and no input, only a
\* description, was answered by the conversational capability
C31_Witness ==
    /\ HandlerWon /\ task.req.task_id = "" /\ task.req.type = << >>
    /\ ~IsSome(task.req.input) /\ IsSome(task.req.description)
    /\ Response.task_id = <<"task", task.startTime>>
    /\ The(Response.output) =
           [by |-> <<"task", "chat">>, given |-> ("message" :> task.req.description)]

\* ---------------------------------------------------------------- the stored credential
\* request p has passed its UserToken to storeToken, whose write under
\* token:<userId> is the last one made under that key (the token is the
\* latest one issued)
Storing(p) ==
    /\ procs[p].op = "auth" /\ procs[p].pc \in {"auth_index", "auth_evict"}
    /\ The(procs[p].val).updatedAt = tick

\* C32: a credential written by storeToken and read back by user id, by
\* getToken or by listUsers, has every field equal to the one written, whether
\* or not it carries an expiresAt.
C32_StoredTokenRoundTrip ==
    [][\A p \in Procs : \A q \in Procs \ {p} :
          Storing(p) =>
             LET token == The(procs[p].val) IN
             /\ (procs[q].pc = "gu_read" /\ procs[q].u = token.userId
                     /\ procs'[q].pc = "gu_build") =>
                    /\ IsSome(procs'[q].val)
                    /\ Parse(The(procs'[q].val)) = token
             /\ (procs[q].pc = "ls_read" /\ procs'[q] # procs[q]
                     /\ The(procs[q].val).keys # << >>
                     /\ Head(The(procs[q].val).keys) = TokenKey(token.userId)) =>
                    LET tokens == The(procs'[q].val).tokens
                    IN /\ Len(tokens) = Len(The(procs[q].val).tokens) + 1
                       /\ tokens[Len(tokens)] = token]_vars

\* C32 witness: getToken has read back, field for field, a credential stored
\* without an expiresAt
C32_Witness ==
    /\ Storing("p1") /\ ~IsSome(The(procs["p1"].val).expiresAt)
    /\ procs["p2"].pc = "gu_build" /\ procs["p2"].u = The(procs["p1"].val).userId
    /\ IsSome(procs["p2"].val)
    /\ "expiresAt" \notin DOMAIN The(procs["p2"].val)
    /\ Parse(The(procs["p2"].val)) = The(procs["p1"].val)

\* ---------------------------------------------------------------- the effect of a refresh
\* the fields of a UserToken a refresh event leaves alone
RefreshFrame == {"userId", "email", "refreshToken", "scopes", "createdAt"}
\* a and b are equal on the fields a refresh event leaves alone
SameFrame(a, b) == \A f \in RefreshFrame : a[f] = b[f]
\* the step lands the first write of a listener's storeToken: w
LandsPrimary(w) == w \in writes /\ w.stage = "primary" /\ w \notin writes'

\* C33: a refresh event changes only accessToken, updatedAt and (when the
\* event carries an expiry date) expiresAt, in the handle's UserToken and in
\* the credential stored for its user: userId, email, refreshToken, scopes and
\* createdAt stay what they were, in memory and in the store, and the stored
\* credential of every other user is untouched.
C33_RefreshFrame ==
    [][/\ \A h \in DOMAIN handles \cap DOMAIN handles' :
              SameFrame(handles'[h], handles[h])
       /\ \A w \in writes :
              LandsPrimary(w) =>
                  LET u == w.val["userId"] IN
                  /\ HasUser(u) => SameFrame(Parse(store'[TokenKey(u)]), Stored(u))
                  /\ \A v \in Users \ {u} :
                         Get(store', TokenKey(v)) = Get(store, TokenKey(v))]_vars

\* ---------------------------------------------------------------- lookups by email
\* C34: in a run without concurrency, a client returned by
\* getClientForEmail(e) is bound to a stored credential whose email is e: the
\* user the email resolved to has a credential, that credential carries e, and
\* so does the UserToken of the returned handle.
C34_EmailResolvesToItsOwner ==
    \A p \in Procs :
        (Sequential /\ Holding(p) /\ procs[p].op = "getEmail") =>
            /\ HasUser(procs[p].u)
            /\ Stored(procs[p].u).email = procs[p].e
            /\ HandleOf(p).email = procs[p].e

\* ---------------------------------------------------------------- the effect of a removal
\* the step is one of removeUser in request slot p
RemovalStep(p) == procs[p].op = "remove" /\ procs'[p] # procs[p]

\* C35: no step of removeUser(u) changes what belongs to another user v: the
\* credential under token:<v>, an email index entry that holds v, and the
\* entries of v in the two client caches.
C35_RemovalTouchesOnlyItsUser ==
    [][\A p \in Procs :
          RemovalStep(p) =>
              \A v \in Users \ {procs[p].u} :
                  /\ Get(store', TokenKey(v)) = Get(store, TokenKey(v))
                  /\ \A e \in Emails :
                         Get(store, EmailKey(e)) = Some(v) =>
                             Get(store', EmailKey(e)) = Some(v)
                  /\ CacheGet(authCache', v) = CacheGet(authCache, v)
                  /\ CacheGet(factCache', v) = CacheGet(factCache, v)]_vars

\* ---------------------------------------------------------------- failures of the document service
\* the handler invoked for the task is one of the six document capabilities
DocumentTask == Executed /\ task.invoked[1].cap \in Registered \ {<<"task", "chat">>}

\* C36: a task of a document capability (create, read, update, append, list,
\* search) is never answered failed with code execution_error; when the
\* document-service call behind it fails and the handler settles the race,
\* the response is completed, without an error, and its output is the tool's
\* result { success: false, error } naming the failure. A completed response
\* therefore does not mean the document operation succeeded.
C36_ServiceFailureCompletes ==
    (Responded /\ DocumentTask) =>
        /\ ~IsSome(Response.error) \/ The(Response.error).code # "execution_error"
        /\ (IsSome(task.toolFailure) /\ task.settledBy = "handler") =>
               /\ Response.status = "completed"
               /\ ~IsSome(Response.error)
               /\ ~IsSome(task.caught)
               /\ The(Response.output).success = FALSE
               /\ The(Response.output).error =
                      [tool |-> task.invoked[1].cap,
                       cause |-> ErrorMessage(The(task.toolFailure))]

\* C36 witness: the document service failed with "quota exceeded" behind
\* google:docs:read, and the task was answered completed with the failure as
\* its output
C36_Witness ==
    /\ Responded /\ DocumentTask /\ task.settledBy = "handler"
    /\ task.invoked[1].cap = <<"google", "docs", "read">>
    /\ IsSome(task.toolFailure)
    /\ Response.status = "completed"
    /\ The(Response.output).success = FALSE
    /\ The(Response.output).error.cause.text = <<"quota", "exceeded">>

\* ---------------------------------------------------------------- the task worker's entry point
\* the task came in through handleSSETask and was answered
SSEAnswered == Responded /\ task.via = "handleSSETask"

\* C37: handleSSETask dispatches the type input.type, else input.capability,
\* else task:chat, with the input as it came; it returns the output of the
\* task exactly when handleTask answered completed, and for every other
\* answer (a handler failure, a timeout, an unknown task type) it throws an
\* error carrying the message of the task's error.
C37_SSEOutcome ==
    (task.pc \in {"executing", "responded"} /\ task.via = "handleSSETask") =>
        LET input == The(task.req.input)
            type == IF "type" \in DOMAIN input /\ input["type"] # << >>
                    THEN input["type"]
                    ELSE IF "capability" \in DOMAIN input /\ input["capability"] # << >>
                    THEN input["capability"]
                    ELSE <<"task", "chat">>
        IN /\ task.taskType = type
           /\ task.invoked # << >> => task.invoked[1].input["message"] = input["message"]
           /\ Responded =>
                 /\ IsSome(task.sse)
                 /\ IF Response.status = "completed"
                    THEN The(task.sse) = [returned |-> Response.output]
                    ELSE /\ "thrown" \in DOMAIN The(task.sse)
                         /\ The(task.sse).thrown = Some(The(Response.error).message)
                 /\ IsSome(task.caught) => "thrown" \in DOMAIN The(task.sse)
                 /\ task.invoked = << >> => "thrown" \in DOMAIN The(task.sse)

\* C37 witness: a task whose input names the type slack:post and the
\* capability google:drive:search was refused as an unknown slack:post task,
\* and handleSSETask threw
C37_Witness ==
    /\ SSEAnswered /\ task.invoked = << >>
    /\ {"type", "capability"} \subseteq DOMAIN The(task.req.input)
    /\ The(task.req.input)["type"] = <<"slack", "post">>
    /\ The(task.req.input)["capability"] = <<"google", "drive", "search">>
    /\ task.taskType = <<"slack", "post">>
    /\ The(Response.error).code = "unknown_task_type"
    /\ "thrown" \in DOMAIN The(task.sse)

\* ---------------------------------------------------------------- user_id before user_email
\* the bodies whose context carries both a user_id and a user_email
BothNamed == {body \in Bodies : ~Malformed(body) /\ IsSome(body.user_id)
                                   /\ IsSome(body.user_email)}

\* C38: a task request whose context carries both user_id and user_email is
\* resolved by user_id alone: its lookup is getClientForUser(user_id), it reads
\* no email index entry, and whatever the email index holds, a request
\* resolved by user id either is handed a client built from that user's
\* credential or, when a run without concurrency finds no credential for the
\* user, is refused with 401 (or 500 when the store fails) and no client.
C38_UserIdTakesPrecedence ==
    /\ [][\A p \in Procs : \A body \in BothNamed :
              HandleA2ATask(p, body) =>
                  /\ procs'[p].op = "getUser"
                  /\ procs'[p].u = The(body.user_id)
                  /\ procs'[p].e = ""
                  /\ procs'[p].pc \in {"gu_read", "done"}]_vars
    /\ [](\A p \in Procs :
              procs[p].op = "getUser" =>
                  /\ Holding(p) => HandleOf(p).userId = procs[p].u
                  /\ (Sequential /\ Answered(p) /\ ~HasUser(procs[p].u)) =>
                         /\ ~Holding(p)
                         /\ HttpStatus(procs[p]) \in {401, 500})

\* C38 witness: a request for u1, which has no credential, was answered 401
\* while b@x.com resolves to u2, which has one
C38_Witness ==
    /\ Sequential /\ Answered("p1") /\ procs["p1"].op = "getUser"
    /\ procs["p1"].u = "u1" /\ ~HasUser("u1")
    /\ HttpStatus(procs["p1"]) = 401
    /\ Get(store, EmailKey("b@x.com")) = Some("u2") /\ HasUser("u2")

\* ---------------------------------------------------------------- the auth middleware
\* the middleware has decided a request
Decided == gate.pc = "decided"
\* the request is let through: next() was called
LetThrough == Decided /\ gate.next > 0

\* C39: the middleware lets a request through, calling next() once and
\* answering nothing, only if skipAuth is set, or X-Admin-Key is the
\* configured admin key, or the Bearer token is the runtime token or the
\* configured admin key; every other request is answered 401 and next() is
\* not called. Unless skipAuth is set, a request without credentials is
\* answered 401, and so is every request when neither an admin key nor a
\* runtime token is configured.
C39_GateLetsThroughOnlyWithKey ==
    Decided =>
        LET config == gate.config
            req == gate.req
            bearer == IF IsSome(req.authorization)
                         /\ The(req.authorization).scheme = "Bearer"
                      THEN Some(The(req.authorization).token) ELSE Absent
            allowed == \/ config.skipAuth
                       \/ IsSome(req.xAdminKey) /\ req.xAdminKey = config.adminKey
                       \/ IsSome(bearer) /\ bearer = config.runtimeToken
                       \/ IsSome(bearer) /\ bearer = config.adminKey
        IN /\ LetThrough => (allowed /\ gate.next = 1 /\ ~IsSome(gate.status))
           /\ ~LetThrough => gate.status = Some(401)
           /\ ~allowed => (gate.next = 0 /\ gate.status = Some(401))
           /\ (~config.skipAuth /\ ~IsSome(req.xAdminKey) /\ ~IsSome(req.authorization)) =>
                  (gate.next = 0 /\ gate.status = Some(401))
           /\ (~config.skipAuth /\ ~IsSome(config.adminKey)
                   /\ ~IsSome(config.runtimeToken)) =>
                  (gate.next = 0 /\ gate.status = Some(401))

\* C39 witness: with skipAuth unset, a request with a wrong X-Admin-Key and
\* the runtime token as Bearer token was let through
C39_Witness ==
    /\ LetThrough /\ ~gate.config.skipAuth
    /\ gate.config.adminKey = Some("k1") /\ gate.req.xAdminKey = Some("bad")
    /\ gate.config.runtimeToken = Some("rt")
    /\ gate.req.authorization = Some([scheme |-> "Bearer", token |-> "rt"])
    /\ gate.next = 1 /\ ~IsSome(gate.status)

====
